---- MODULE Spec2Model ----
(***************************************************************************)
(* PawPal+ scheduling core (src/pawpal_system.py): TimeWindow, Task,       *)
(* ScheduledTask, Schedule and Scheduler.generate_schedule.                *)
(*                                                                         *)
(* Times of day and durations are whole minutes, counted in one abstract   *)
(* unit; a schedule is for one date, so a datetime is its time of day.     *)
(* A score is a rational number, kept exactly as num/den.                  *)
(* A log line names a task by its title; a task built for a run has its id *)
(* for title.                                                              *)
(***************************************************************************)
EXTENDS Integers, Sequences, FiniteSets, TLC

VARIABLES
    availability,   \* Owner.availability: list of TimeWindow
    tasks,          \* Pet.tasks: list of Task
    now,            \* the clock, in hours (datetime.now())
    last_schedule,  \* Scheduler.last_schedule (None or a Schedule)
    decision_log,   \* Scheduler.decision_log
    warnings,       \* Scheduler.warnings
    runs,           \* history: one record per completed generate_schedule call
    manual,         \* a Schedule the caller fills directly (None: there is none)
    returned,       \* what the last call on a Pet or a Task returned (None: no call)
    owners,         \* the Owner objects: for each its id and its pets, a list of Pets
    pets,           \* the Pet objects: for each its id, name and owner_id
    spawned,        \* history: the ids mark_task_complete has returned tasks with
    schedulers,     \* the Scheduler objects that calls in progress work on
    threads         \* the generate_schedule calls in progress, one per thread

vars == <<availability, tasks, now, last_schedule, decision_log, warnings, runs,
          manual, returned, owners, pets, spawned, schedulers, threads>>

\* Optional values: None, or Some(x) holding x
None == <<>>

Some(x) == <<x>>

The(o) == o[1]

\* ------------------------------------------------------------------ bounds
MaxTime == 4        \* times of day are 0..MaxTime
MaxDur == 2         \* task durations drawn for a run are 1..MaxDur
MaxCalls == 2       \* generate_schedule calls on the one Scheduler
MaxPetTasks == 3    \* mark_task_complete is called while the pet has fewer tasks
MaxTicks == 2       \* hours the clock advances

\* ------------------------------------------------------------- sequences
RECURSIVE SumSeq(_)
SumSeq(s) == IF s = <<>> THEN 0 ELSE Head(s) + SumSeq(Tail(s))

Range(s) == {s[i] : i \in 1..Len(s)}

InsertAt(s, i, x) == SubSeq(s, 1, i - 1) \o <<x>> \o SubSeq(s, i, Len(s))

RemoveAt(s, i) == SubSeq(s, 1, i - 1) \o SubSeq(s, i + 1, Len(s))

\* F applied to the value of v: v is computed once, whatever F does with it
Bind(v, F(_)) == CHOOSE y \in {F(x) : x \in {v}} : TRUE

\* ------------------------------------------------------------ TimeWindow
Window(s, e) == [start |-> s, end |-> e]

\* TimeWindow.__post_init__: construction succeeds iff start < end
ValidWindow(w) == w.start < w.end

duration_minutes(w) == w.end - w.start

contains(w, t) == w.start <= t /\ t <= w.end

\* mutant: windows that touch at a boundary are taken to overlap
overlaps_touching(a, b) == ~(a.end < b.start \/ b.end < a.start)

overlaps(a, b) == ~(a.end <= b.start \/ b.end <= a.start)

\* mutant: a window exactly as long as the task is taken not to fit
fits_task_strict(w, d) == duration_minutes(w) > d

fits_task(w, d) == duration_minutes(w) >= d

\* ------------------------------------------------------------------ Task
Priorities == {"low", "medium", "high", "critical"}

Recurrences == {"daily", "weekly", "biweekly", "monthly", "as_needed"}

MaxTaskMinutes == 1440

\* mutant: no upper limit on the duration
ValidTask_any_length(t) ==
    /\ t.id # "" /\ t.title # ""
    /\ t.duration_minutes > 0

\* Task.__post_init__: id and title non-empty, 0 < duration <= 1440
ValidTask(t) ==
    /\ t.id # "" /\ t.title # ""
    /\ t.duration_minutes > 0
    /\ t.duration_minutes <= MaxTaskMinutes

\* hours a recurrence allows between two completions (0: no threshold)
RecurrenceHours(r) ==
    CASE r = "daily" -> 24
      [] r = "weekly" -> 168
      [] r = "biweekly" -> 336
      [] r = "monthly" -> 720
      [] OTHER -> 0

\* mutant: a task is overdue from the threshold on, not only beyond it
is_overdue_from_threshold(t, clock) ==
    IF t.last_done = None
    THEN t.required
    ELSE /\ t.recurrence # "as_needed"
         /\ clock - The(t.last_done) >= RecurrenceHours(t.recurrence)

is_overdue(t, clock) ==
    IF t.last_done = None
    THEN t.required
    ELSE /\ t.recurrence # "as_needed"
         /\ clock - The(t.last_done) > RecurrenceHours(t.recurrence)

\* --------------------------------------------------------- ScheduledTask
ToleranceMinutes == 1

Abs(x) == IF x < 0 THEN -x ELSE x

\* ScheduledTask.__post_init__: start < end and the length is the task's
\* duration, give or take a minute
ValidScheduledTask(st) ==
    /\ st.start_time < st.end_time
    /\ Abs(st.task.duration_minutes - (st.end_time - st.start_time))
            <= ToleranceMinutes

overlaps_with(a, b) == ~(a.end_time <= b.start_time \/ b.end_time <= a.start_time)

\* -------------------------------------------------------------- Schedule
EmptySchedule(total) ==
    [scheduled_tasks |-> <<>>,
     unscheduled_tasks |-> <<>>,
     total_minutes_scheduled |-> 0,
     total_minutes_available |-> total,
     explanation |-> <<>>]

\* bisect.insort (insort_right) by start_time: after every entry whose
\* start_time is <= the new one, scanning a list assumed sorted
RECURSIVE BisectRight(_, _, _, _)
BisectRight(s, x, lo, hi) ==
    IF lo >= hi THEN lo
    ELSE LET mid == (lo + hi) \div 2
         IN IF x < s[mid + 1].start_time
            THEN BisectRight(s, x, lo, mid)
            ELSE BisectRight(s, x, mid + 1, hi)

\* mutant: the new entry is put at the end of the list
Insort_at_end(s, st) == Append(s, st)

Insort(s, st) == InsertAt(s, BisectRight(s, st.start_time, 0, Len(s)) + 1, st)

\* mutant: the overlap check left out
HasConflict_never(s, st) == FALSE

HasConflict(s, st) == \E i \in 1..Len(s) : overlaps_with(st, s[i])

\* mutant: the minutes are counted before the overlap check
add_scheduled_task_early(schedule, st) ==
    IF HasConflict(schedule.scheduled_tasks, st)
    THEN [ok |-> FALSE,
          schedule |-> [schedule EXCEPT
              !.total_minutes_scheduled = @ + st.task.duration_minutes]]
    ELSE [ok |-> TRUE,
          schedule |->
              [schedule EXCEPT
                  !.scheduled_tasks = Insort(@, st),
                  !.total_minutes_scheduled = @ + st.task.duration_minutes]]

\* Schedule.add_scheduled_task: [ok, schedule]
add_scheduled_task(schedule, st) ==
    IF HasConflict(schedule.scheduled_tasks, st)
    THEN [ok |-> FALSE, schedule |-> schedule]
    ELSE [ok |-> TRUE,
          schedule |->
              [schedule EXCEPT
                  !.scheduled_tasks = Insort(@, st),
                  !.total_minutes_scheduled = @ + st.task.duration_minutes]]

\* Schedule.get_conflicts: the pairs (i, j), i < j, that overlap
get_conflicts(schedule) ==
    LET s == schedule.scheduled_tasks
    IN {p \in (1..Len(s)) \X (1..Len(s)) :
            p[1] < p[2] /\ overlaps_with(s[p[1]], s[p[2]])}

\* list.sort / sorted with an integer key: a stable ascending sort of the
\* pairs <<key, item>> (equal keys keep their input order)
RECURSIVE StableSortPairs(_)
StableSortPairs(ps) ==
    IF ps = <<>> THEN <<>>
    ELSE Bind(StableSortPairs(Tail(ps)), LAMBDA rest :
            InsertAt(rest,
                     Cardinality({i \in 1..Len(rest) :
                         \A j \in 1..i : rest[j][1] < Head(ps)[1]}) + 1,
                     Head(ps)))

SortedByStartTime(s) ==
    Bind(StableSortPairs([i \in 1..Len(s) |-> <<s[i].start_time, s[i]>>]),
         LAMBDA ps : [i \in 1..Len(s) |-> ps[i][2]])

\* Schedule.sort_by_time
sort_by_time(schedule) ==
    [schedule EXCEPT !.scheduled_tasks = SortedByStartTime(@)]

\* mutant: the division is made whatever the minutes available
get_utilization_rate_unguarded(schedule) ==
    [num |-> schedule.total_minutes_scheduled * 100,
     den |-> schedule.total_minutes_available]

\* get_utilization_rate, in percent, as a pair num/den (0/1 when nothing is available)
get_utilization_rate(schedule) ==
    IF schedule.total_minutes_available = 0
    THEN [num |-> 0, den |-> 1]
    ELSE [num |-> schedule.total_minutes_scheduled * 100,
          den |-> schedule.total_minutes_available]

\* ------------------------------------------------------------- Scheduler
\* A score is num/den points, den > 0.
ScoreLess(a, b) == a.num * b.den < b.num * a.den

ScoreEq(a, b) == a.num * b.den = b.num * a.den

\* priority_scores.get(t.priority, 2.0)
PriorityBase(p) ==
    CASE p = "critical" -> 4
      [] p = "high" -> 3
      [] p = "medium" -> 2
      [] p = "low" -> 1
      [] OTHER -> 2

Min(a, b) == IF a < b THEN a ELSE b

\* the overdue bonus in half points: 0.5 per elapsed day capped at 3.0 for a
\* task done before, a flat 1.0 for an overdue task never done
OverdueHalves(t, clock) ==
    IF is_overdue(t, clock) /\ t.last_done # None
    THEN Min((clock - The(t.last_done)) \div 24, 6)
    ELSE IF is_overdue(t, clock) THEN 2 ELSE 0

\* mutant: a task done exactly 6 or 12 hours ago is taken for the nearer band
RecencyHalves_inclusive(t, clock) ==
    IF t.last_done = None THEN 0
    ELSE IF clock - The(t.last_done) <= 6 THEN -2
    ELSE IF clock - The(t.last_done) <= 12 THEN -1
    ELSE 0

\* the recency penalty in half points
RecencyHalves(t, clock) ==
    IF t.last_done = None THEN 0
    ELSE IF clock - The(t.last_done) < 6 THEN -2
    ELSE IF clock - The(t.last_done) < 12 THEN -1
    ELSE 0

\* durations of the preferred windows that can hold the task
FittingSizes(t) ==
    {duration_minutes(t.preferred_windows[i]) : i \in
        {j \in 1..Len(t.preferred_windows) :
            duration_minutes(t.preferred_windows[j]) >= t.duration_minutes}}

SetMin(S) == CHOOSE x \in S : \A y \in S : x <= y

\* Scheduler.score_task: halves/2 + duration / (2 * smallest fitting window)
score_task(t, clock) ==
    LET halves == 2 * PriorityBase(t.priority)
                  + (IF t.required THEN 4 ELSE 0)
                  + OverdueHalves(t, clock)
                  + RecencyHalves(t, clock)
    IN IF FittingSizes(t) = {}
       THEN [num |-> halves, den |-> 2]
       ELSE LET w == SetMin(FittingSizes(t))
            IN [num |-> halves * w + t.duration_minutes, den |-> 2 * w]

\* mutant: a sort that puts a task after the later tasks of the same score
RECURSIVE SortScoredDesc_unstable(_)
SortScoredDesc_unstable(ps) ==
    IF ps = <<>> THEN <<>>
    ELSE Bind(SortScoredDesc_unstable(Tail(ps)), LAMBDA rest :
            InsertAt(rest,
                     Cardinality({i \in 1..Len(rest) :
                         \A j \in 1..i : ~ScoreLess(rest[j].score, Head(ps).score)}) + 1,
                     Head(ps)))

\* list.sort(reverse=True, key=score): stable, highest score first
RECURSIVE SortScoredDesc(_)
SortScoredDesc(ps) ==
    IF ps = <<>> THEN <<>>
    ELSE Bind(SortScoredDesc(Tail(ps)), LAMBDA rest :
            InsertAt(rest,
                     Cardinality({i \in 1..Len(rest) :
                         \A j \in 1..i : ScoreLess(Head(ps).score, rest[j].score)}) + 1,
                     Head(ps)))

IsRequired(t) == t.required

IsOptional(t) == ~t.required

Scored(ts, clock) == [i \in 1..Len(ts) |-> [score |-> score_task(ts[i], clock), task |-> ts[i]]]

\* mutant: one sort of all tasks by score, required or not
AttemptOrder_one_sort(ts, clock) == SortScoredDesc(Scored(ts, clock))

\* generate_schedule lines 404-415: required group first, each group by score
AttemptOrder(ts, clock) ==
    SortScoredDesc(Scored(SelectSeq(ts, IsRequired), clock))
        \o SortScoredDesc(Scored(SelectSeq(ts, IsOptional), clock))

\* sorted(available_windows, key=lambda w: w.start)
SortedByStart(ws) ==
    Bind(StableSortPairs([i \in 1..Len(ws) |-> <<ws[i].start, ws[i]>>]),
         LAMBDA ps : [i \in 1..Len(ws) |-> ps[i][2]])

TotalMinutes(ws) == SumSeq([i \in 1..Len(ws) |-> duration_minutes(ws[i])])

\* the warning of one refused placement: candidate against one placed task
ConflictWarning(st, existing) ==
    [kind |-> "CONFLICT",
     title |-> st.task.title, start |-> st.start_time, end |-> st.end_time,
     other |-> existing.task.title,
     other_start |-> existing.start_time, other_end |-> existing.end_time]

\* mutant: only the first placed task a candidate overlaps is reported
Overlapping_first(s, st) ==
    LET Hits(e) == overlaps_with(st, e)
    IN IF SelectSeq(s, Hits) = <<>> THEN <<>> ELSE <<Head(SelectSeq(s, Hits))>>

\* the placed tasks a candidate overlaps, in list order
Overlapping(s, st) ==
    LET Hits(e) == overlaps_with(st, e) IN SelectSeq(s, Hits)

\* the reason string of a placement: priority, ", Required", ", Overdue"
Reason(task, clock) ==
    [priority |-> task.priority, required |-> task.required,
     overdue |-> is_overdue(task, clock)]

\* mutant: the placement takes the whole window
_schedule_in_window_whole(r, task, window, clock) ==
    IF ~fits_task(window, task.duration_minutes)
    THEN [ok |-> FALSE, run |-> r]
    ELSE LET st == [task |-> task, start_time |-> window.start,
                    end_time |-> window.end, reason |-> Reason(task, clock)]
             res == add_scheduled_task(r.schedule, st)
         IN IF res.ok
            THEN [ok |-> TRUE, run |-> [r EXCEPT !.schedule = res.schedule]]
            ELSE [ok |-> FALSE, run |-> [r EXCEPT !.schedule = res.schedule]]

\* Scheduler._schedule_in_window on a run state r: [ok, run]
_schedule_in_window(r, task, window, clock) ==
    IF ~fits_task(window, task.duration_minutes)
    THEN [ok |-> FALSE, run |-> r]
    ELSE LET start_dt == window.start
             end_dt == start_dt + task.duration_minutes
             st == [task |-> task, start_time |-> start_dt, end_time |-> end_dt,
                    reason |-> Reason(task, clock)]
             res == add_scheduled_task(r.schedule, st)
             hits == Overlapping(r.schedule.scheduled_tasks, st)
             msgs == [i \in 1..Len(hits) |-> ConflictWarning(st, hits[i])]
         IN IF end_dt > window.end
            THEN [ok |-> FALSE, run |-> r]
            ELSE IF res.ok
            THEN [ok |-> TRUE, run |-> [r EXCEPT !.schedule = res.schedule]]
            ELSE [ok |-> FALSE,
                  run |-> [r EXCEPT
                      !.schedule = res.schedule,
                      !.warnings = @ \o msgs,
                      !.decision_log = @ \o [i \in 1..Len(msgs) |->
                                              [kind |-> "->", warning |-> msgs[i]]]]]

\* mutant: the windows of a list are tried from the last to the first
RECURSIVE TryWindows_from_last(_, _, _, _, _)
TryWindows_from_last(r, task, ws, clock, tried) ==
    IF ws = <<>> THEN [ok |-> FALSE, run |-> r, tried |-> tried]
    ELSE Bind(_schedule_in_window(r, task, ws[Len(ws)], clock), LAMBDA one :
            IF one.ok
            THEN [ok |-> TRUE, run |-> one.run, tried |-> tried + 1]
            ELSE TryWindows_from_last(one.run, task, SubSeq(ws, 1, Len(ws) - 1),
                                      clock, tried + 1))

\* the two loops of _try_schedule_task over a list of windows:
\* [ok, run, tried] with tried the number of windows handed to _schedule_in_window
RECURSIVE TryWindows(_, _, _, _, _)
TryWindows(r, task, ws, clock, tried) ==
    IF ws = <<>> THEN [ok |-> FALSE, run |-> r, tried |-> tried]
    ELSE Bind(_schedule_in_window(r, task, Head(ws), clock), LAMBDA one :
            IF one.ok
            THEN [ok |-> TRUE, run |-> one.run, tried |-> tried + 1]
            ELSE TryWindows(one.run, task, Tail(ws), clock, tried + 1))

ScheduledIds(schedule) ==
    {schedule.scheduled_tasks[i].task.id : i \in 1..Len(schedule.scheduled_tasks)}

\* mutant: the preferred windows are not tried
_try_schedule_task_pool_only(r, task, clock) ==
    IF \E i \in 1..Len(task.dependencies) :
            task.dependencies[i] \notin ScheduledIds(r.schedule)
    THEN [ok |-> FALSE,
          run |-> [r EXCEPT !.decision_log =
                      Append(@, [kind |-> "dependency", title |-> task.title,
                                 dep |-> task.dependencies[1]])],
          tried |-> 0]
    ELSE TryWindows(r, task, r.dynamic_windows, clock, 0)

\* mutant: the dependency check left out
FirstUnmet_none(task, schedule) == None

\* mutant: a task's own id passes for the id of a placed task
FirstUnmet_but_self(task, schedule) ==
    LET missing == {i \in 1..Len(task.dependencies) :
                        task.dependencies[i] \notin ScheduledIds(schedule) \cup {task.id}}
    IN IF missing = {} THEN None ELSE Some(task.dependencies[SetMin(missing)])

\* the first dependency id that is not among the placed tasks, or None
FirstUnmet(task, schedule) ==
    LET missing == {i \in 1..Len(task.dependencies) :
                        task.dependencies[i] \notin ScheduledIds(schedule)}
    IN IF missing = {} THEN None ELSE Some(task.dependencies[SetMin(missing)])

\* Scheduler._try_schedule_task: [ok, run, tried]
_try_schedule_task(r, task, clock) ==
    IF FirstUnmet(task, r.schedule) # None
    THEN [ok |-> FALSE,
          run |-> [r EXCEPT !.decision_log =
                      Append(@, [kind |-> "dependency", title |-> task.title,
                                 dep |-> The(FirstUnmet(task, r.schedule))])],
          tried |-> 0]
    ELSE Bind(TryWindows(r, task, task.preferred_windows, clock, 0), LAMBDA pref :
            IF pref.ok THEN pref
            ELSE TryWindows(pref.run, task, pref.run.dynamic_windows, clock,
                            pref.tried))

\* the index of the first pool window containing time t, or 0
FirstContaining(ws, t) ==
    LET hit == {i \in 1..Len(ws) : contains(ws[i], t)}
    IN IF hit = {} THEN 0 ELSE SetMin(hit)

\* mutant: the leftover after the task is dropped
Fragments_no_after(w, s, e) ==
    IF s > w.start /\ ValidWindow(Window(w.start, s))
    THEN <<Window(w.start, s)>> ELSE <<>>

\* the leftovers of window w around the interval [s, e], before then after
Fragments(w, s, e) ==
    (IF s > w.start /\ ValidWindow(Window(w.start, s))
        THEN <<Window(w.start, s)>> ELSE <<>>)
    \o (IF e < w.end /\ ValidWindow(Window(e, w.end))
        THEN <<Window(e, w.end)>> ELSE <<>>)

\* Scheduler._update_windows_after_scheduling: the pool after task was placed
_update_windows_after_scheduling(task, ws, schedule) ==
    IF schedule.scheduled_tasks = <<>> THEN ws
    ELSE LET st == schedule.scheduled_tasks[Len(schedule.scheduled_tasks)]
             i == FirstContaining(ws, st.start_time)
         IN IF st.task.id # task.id THEN ws
            ELSE IF i = 0 THEN ws
            ELSE SubSeq(ws, 1, i - 1)
                    \o Fragments(ws[i], st.start_time, st.end_time)
                    \o SubSeq(ws, i + 1, Len(ws))

\* mutant: the log of the previous run is kept
BeginRun_keep_log(log, warns, windows) ==
    Bind(SortedByStart(windows), LAMBDA sorted :
        [schedule |-> EmptySchedule(TotalMinutes(sorted)),
         dynamic_windows |-> sorted,
         decision_log |-> log,
         warnings |-> <<>>,
         attempts |-> <<>>])

\* mutant: the warnings of the previous run are kept
BeginRun_keep(log, warns, windows) ==
    Bind(SortedByStart(windows), LAMBDA sorted :
        [schedule |-> EmptySchedule(TotalMinutes(sorted)),
         dynamic_windows |-> sorted,
         decision_log |-> <<>>,
         warnings |-> warns,
         attempts |-> <<>>])

\* generate_schedule lines 386-402 and 423: the state a run starts from, given
\* the Scheduler's log and warnings and the windows resolved for the run
BeginRun(log, warns, windows) ==
    Bind(SortedByStart(windows), LAMBDA sorted :
        [schedule |-> EmptySchedule(TotalMinutes(sorted)),
         dynamic_windows |-> sorted,
         decision_log |-> <<>>,
         warnings |-> <<>>,
         attempts |-> <<>>])

\* the run after a placement of task succeeded (lines 428-430)
AfterScheduled(r, scored) ==
    [r EXCEPT
        !.decision_log = Append(@, [kind |-> "[SCHEDULED]",
            title |-> scored.task.title, score |-> scored.score,
            priority |-> scored.task.priority]),
        !.dynamic_windows =
            _update_windows_after_scheduling(scored.task, @, r.schedule)]

\* mutant: a task that was not placed is only logged
AfterSkipped_log_only(r, scored) ==
    [r EXCEPT
        !.decision_log = Append(@, [kind |-> "[SKIPPED]",
            title |-> scored.task.title, score |-> scored.score])]

\* the run after no placement of task succeeded (lines 432-433)
AfterSkipped(r, scored) ==
    [r EXCEPT
        !.schedule.unscheduled_tasks = Append(@, scored.task),
        !.decision_log = Append(@, [kind |-> "[SKIPPED]",
            title |-> scored.task.title, score |-> scored.score])]

\* one iteration of the loop of generate_schedule (lines 425-433); attempts is
\* the history of the run: what each iteration saw and did
AttemptTask(r, scored, clock) ==
    Bind(_try_schedule_task(r, scored.task, clock), LAMBDA res :
    Bind(IF res.ok THEN AfterScheduled(res.run, scored)
                   ELSE AfterSkipped(res.run, scored), LAMBDA after :
        [after EXCEPT !.attempts = Append(@,
            [task |-> scored.task,
             score |-> scored.score,
             scheduled |-> res.ok,
             tried |-> res.tried,
             placed_before |-> r.schedule.scheduled_tasks,
             pool_before |-> r.dynamic_windows,
             pool_after |-> after.dynamic_windows,
             new_warnings |-> Len(res.run.warnings) - Len(r.warnings)])]))

RECURSIVE AttemptAll(_, _, _)
AttemptAll(r, order, clock) ==
    IF order = <<>> THEN r
    ELSE Bind(AttemptTask(r, Head(order), clock), LAMBDA r2 :
            AttemptAll(r2, Tail(order), clock))

\* available_windows of a call: the explicit list, or Owner.get_availability
ResolveWindows(aw, owner_availability) ==
    IF aw = None THEN owner_availability ELSE The(aw)

\* the three lines logged before the loop (lines 417-419)
Header(pet_tasks, windows, total) ==
    <<[kind |-> "Scheduling", n |-> Len(pet_tasks)],
      [kind |-> "Required",
       n |-> Len(SelectSeq(pet_tasks, IsRequired)),
       optional |-> Len(SelectSeq(pet_tasks, IsOptional))],
      [kind |-> "Available windows", n |-> Len(windows), total |-> total]>>

\* mutant: the explanation is not written
FinishRun_no_explanation(r) ==
    [r EXCEPT !.schedule = sort_by_time(r.schedule)]

\* lines 435-436: the final sort and the explanation
FinishRun(r) ==
    [r EXCEPT !.schedule =
        [sort_by_time(r.schedule) EXCEPT !.explanation = r.decision_log]]

\* Scheduler.generate_schedule as a function of the Scheduler's fields and the
\* inputs: the run state when the call returns
RunGenerate(log, warns, owner_availability, pet_tasks, aw, clock) ==
    Bind(BeginRun(log, warns, ResolveWindows(aw, owner_availability)), LAMBDA r0 :
    Bind(AttemptOrder(pet_tasks, clock), LAMBDA order :
    Bind(AttemptAll(
            [r0 EXCEPT !.decision_log = @ \o
                Header(pet_tasks, r0.dynamic_windows,
                       r0.schedule.total_minutes_available)],
            order, clock), LAMBDA r1 :
        FinishRun(r1))))

\* the fixed text of explain_decision, as a transcript of one line
NoScheduleYet == <<[kind |-> "No schedule has been generated yet."]>>

\* Scheduler.explain_decision
explain_decision(schedule) ==
    IF schedule = None THEN NoScheduleYet ELSE The(schedule).explanation

\* Scheduler.get_warnings: a copy of the warnings list
get_warnings(warns) == warns

\* Scheduler.has_warnings
has_warnings(warns) == Len(warns) > 0

\* ---------------------------------------------------------------- inputs
Times == 0..MaxTime

WindowsWithin(last) == {w \in [start : 0..last, end : 0..last] : ValidWindow(w)}

AllWindows == WindowsWithin(MaxTime)

\* the windows of the shorter day used where tasks carry windows or dependencies
ShortWindows == WindowsWithin(MaxTime - 1)

Durations == 1..MaxDur

Last(s) == s[Len(s)]

\* the hour at which the clock stands
StartOfClock == 1000

\* ----------------------------------------------------------- Owner and Pet
\* Pet(id, name, owner_id); species is None and tasks is the variable tasks
\* for the Pet called ThePet, empty for any other
NewPet(id, name, owner_id) == [id |-> id, name |-> name, owner_id |-> owner_id]

\* Owner(id, name): no pets yet
NewOwner(id) == [id |-> id, pets |-> <<>>]

Rex == NewPet("p1", "Rex", None)

\* the Pet whose task list is the variable tasks
ThePet == "rex"

OnePet == [p \in {ThePet} |-> Rex]

OwnerRefs == {"alex", "sam"}

OwnerIdOf(o) == IF o = "alex" THEN "o1" ELSE "o2"

NoPetsYet == [o \in OwnerRefs |-> NewOwner(OwnerIdOf(o))]

NewTask(id, d, p, req, prefs, deps, done) ==
    [id |-> id, title |-> id, duration_minutes |-> d, priority |-> p,
     required |-> req,
     preferred_windows |-> prefs, dependencies |-> deps,
     last_done |-> done, recurrence |-> "as_needed", pet_id |-> Some(Rex.id)]

\* lists of at most one, two and three elements
UpTo1(S) == {<<>>} \cup {<<a>> : a \in S}

UpTo2(S, T) == UpTo1(S) \cup {<<a, b>> : a \in S, b \in T}

UpTo3(S, T, U) == UpTo2(S, T) \cup {<<a, b, c>> : a \in S, b \in T, c \in U}

\* one window, or a window from the start of the day followed by one reaching
\* the end of the day, of a set of windows whose day ends at last
OneOrTwo(ws, last) ==
    UpTo1(ws) \cup {<<a, b>> : a \in {w \in ws : w.start = 0},
                               b \in {w \in ws : w.end = last}}

\* Pool inputs: one or two availability windows, or none, and up to three
\* optional tasks without preferred windows or dependencies (attempted in
\* list order)
PoolTasks(id) ==
    {NewTask(id, d, "medium", FALSE, <<>>, <<>>, None) : d \in Durations}

PoolInputs ==
    /\ availability \in OneOrTwo(AllWindows, MaxTime)
    /\ tasks \in UpTo3(PoolTasks("t1"), PoolTasks("t2"), PoolTasks("t3"))

\* Rank inputs: one window from the start of the day and up to two tasks that
\* differ in duration, priority and required flag, or three unit tasks that
\* differ in priority, required flag and completion time
RankTasks(id) ==
    {NewTask(id, d, p, req, <<>>, <<>>, None) :
        d \in 1..(MaxDur + 1), p \in {"low", "critical"}, req \in BOOLEAN}

UnitTasks(id) ==
    {NewTask(id, 1, p, req, <<>>, <<>>, done) :
        p \in {"low", "critical"}, req \in BOOLEAN,
        done \in {None, Some(StartOfClock - 3)}}

RankInputs ==
    \/ /\ availability \in {<<Window(0, e)>> : e \in 1..MaxTime}
       /\ tasks \in UpTo2(RankTasks("t1"), RankTasks("t2"))
    \/ /\ availability = <<Window(0, 2)>>
       /\ tasks \in {<<a, b, c>> : a \in UnitTasks("t1"), b \in UnitTasks("t2"),
                                   c \in UnitTasks("t3")}

\* Preference inputs: no availability window, or the first hour or the whole
\* of the shorter day, and up to two required tasks, each with at most one
\* preferred window
PrefTasks(id) ==
    {NewTask(id, d, "medium", TRUE, prefs, <<>>, None) :
        d \in Durations, prefs \in UpTo1(ShortWindows)}

PrefInputs ==
    /\ availability \in {<<>>, <<Window(0, 1)>>, <<Window(0, MaxTime - 1)>>}
    /\ tasks \in UpTo2(PrefTasks("t1"), PrefTasks("t2"))

\* Dependency inputs: one or two availability windows of the shorter day, or
\* none, and up to two optional tasks, each with at most one dependency:
\* itself, the other task, or an id that no task has
DepTasks(id) ==
    {NewTask(id, d, "medium", FALSE, <<>>, deps, None) :
        d \in Durations, deps \in UpTo1({"t1", "t2", "zz"})}

DepInputs ==
    /\ availability \in OneOrTwo(ShortWindows, MaxTime - 1)
    /\ tasks \in UpTo2(DepTasks("t1"), DepTasks("t2"))

\* Order inputs: the whole day as one window and unit tasks whose dependencies
\* name tasks of the list: two tasks that differ in priority and required
\* flag, one or both depending on the other, or three optional tasks of one
\* priority, each depending on one of the other two
OrderPairs ==
    {<<NewTask("t1", 1, p1, r1, <<>>, ds[1], None),
       NewTask("t2", 1, p2, r2, <<>>, ds[2], None)>> :
        p1 \in {"low", "critical"}, p2 \in {"low", "critical"},
        r1 \in BOOLEAN, r2 \in BOOLEAN,
        ds \in {<<<<"t2">>, <<>>>>, <<<<>>, <<"t1">>>>, <<<<"t2">>, <<"t1">>>>}}

OrderTriples ==
    {<<NewTask("t1", 1, "medium", FALSE, <<>>, <<a>>, None),
       NewTask("t2", 1, "medium", FALSE, <<>>, <<b>>, None),
       NewTask("t3", 1, "medium", FALSE, <<>>, <<c>>, None)>> :
        a \in {"t2", "t3"}, b \in {"t1", "t3"}, c \in {"t1", "t2"}}

OrderInputs ==
    /\ availability = <<Window(0, MaxTime)>>
    /\ tasks \in OrderPairs \cup OrderTriples

\* Twin inputs: at most one availability window and two required tasks of the
\* same duration with the same single preferred window, the first of a lower
\* or a higher priority than the second
TwinTasks ==
    {<<NewTask("t1", d, p, TRUE, <<w>>, <<>>, None),
       NewTask("t2", d, "high", TRUE, <<w>>, <<>>, None)>> :
        d \in Durations, p \in {"medium", "critical"}, w \in ShortWindows}

TwinInputs ==
    /\ availability \in UpTo1(ShortWindows)
    /\ tasks \in TwinTasks

\* Direct inputs: no owner window and no task; the caller fills a Schedule
\* itself with ScheduledTasks of its own making
DirectInputs ==
    /\ availability = <<>>
    /\ tasks = <<>>

DirectCandidates ==
    {st \in [task : PoolTasks("t1"),
             start_time : Times, end_time : Times,
             reason : {Reason(NewTask("t1", 1, "medium", FALSE, <<>>, <<>>, None),
                              StartOfClock)}] :
        ValidScheduledTask(st)}

\* the explicit available_windows a call may pass
ExplicitWindows == {Some(<<Window(0, MaxTime)>>)}

Init ==
    /\ \/ PoolInputs /\ manual = None
       \/ RankInputs /\ manual = None
       \/ PrefInputs /\ manual = None
       \/ DepInputs /\ manual = None
       \/ OrderInputs /\ manual = None
       \/ TwinInputs /\ manual = None
       \/ DirectInputs /\ manual = Some(EmptySchedule(0))
    /\ now = StartOfClock
    /\ last_schedule = None
    /\ decision_log = <<>>
    /\ warnings = <<>>
    /\ runs = <<>>
    /\ returned = None
    /\ owners = NoPetsYet
    /\ pets = OnePet
    /\ spawned = {}
    /\ schedulers = <<>>
    /\ threads = <<>>

\* mutant: the run cuts up the caller's own list
CallersList_shared(ws, pool) == pool

\* the caller's list of windows when the call returns, given the pool the run
\* ends with: get_availability hands out a copy (line 111), sorted() builds a
\* new list (line 394) and the pool is a copy of that (line 423), so the pool
\* the run cuts up is never the caller's list
CallersList(ws, pool) == ws

\* scheduler.generate_schedule(owner, pet, date, aw): the Scheduler's fields are
\* left as the run leaves them, and the call is added to the history
generate_schedule(aw) ==
    /\ Len(runs) < MaxCalls
    /\ \E r \in {RunGenerate(decision_log, warnings, availability, tasks, aw, now)} :
          /\ decision_log' = r.decision_log
          /\ warnings' = r.warnings
          /\ last_schedule' = Some(r.schedule)
          /\ availability' =
                IF aw = None THEN CallersList(availability, r.dynamic_windows)
                ELSE availability
          /\ runs' = Append(runs,
                [aw |-> aw,
                 aw_after |-> IF aw = None THEN None
                              ELSE Some(CallersList(The(aw), r.dynamic_windows)),
                 run |-> r])
    /\ UNCHANGED <<tasks, now, manual, returned, owners, pets,
                   spawned, schedulers, threads>>

\* schedule.add_scheduled_task(st) on the caller's own Schedule
direct_add_scheduled_task(st) ==
    /\ manual # None
    /\ manual' = Some(add_scheduled_task(The(manual), st).schedule)
    /\ UNCHANGED <<availability, tasks, now, last_schedule, decision_log,
                   warnings, runs, returned, owners, pets,
                   spawned, schedulers, threads>>

Next ==
    \/ \E aw \in {None} \cup ExplicitWindows : generate_schedule(aw)
    \/ \E st \in DirectCandidates : direct_add_scheduled_task(st)

Spec == Init /\ [][Next]_vars

\* ------------------------------------------- Schedule, call by call
\* Filled inputs: a Schedule of the caller's own, or a pet of two required
\* tasks with a preferred window and an owner with at most one window
FilledInit ==
    /\ \/ DirectInputs /\ manual = Some(EmptySchedule(0))
       \/ TwinInputs /\ manual = None
    /\ now = StartOfClock
    /\ last_schedule = None
    /\ decision_log = <<>>
    /\ warnings = <<>>
    /\ runs = <<>>
    /\ returned = None
    /\ owners = NoPetsYet
    /\ pets = OnePet
    /\ spawned = {}
    /\ schedulers = <<>>
    /\ threads = <<>>

\* schedule.add_scheduled_task(st) on the caller's own Schedule, with what it
\* returned; before is the Schedule the call found
call_add_scheduled_task(st) ==
    /\ manual # None
    /\ \E r \in {add_scheduled_task(The(manual), st)} :
          /\ manual' = Some(r.schedule)
          /\ returned' = Some([call |-> "add_scheduled_task", st |-> st,
                               before |-> The(manual), value |-> r.ok])
    /\ UNCHANGED <<availability, tasks, now, last_schedule, decision_log,
                   warnings, runs, owners, pets,
                   spawned, schedulers, threads>>

FilledNext ==
    \/ \E st \in DirectCandidates : call_add_scheduled_task(st)
    \/ generate_schedule(None)

FilledSpec == FilledInit /\ [][FilledNext]_vars

\* ------------------------------------------------------------------- Pet
Recurring == {"daily", "weekly", "biweekly", "monthly"}

\* ids a caller gives its tasks; none of them holds "_next_"
BaseIds == {"t1", "t2"}

\* f"{base_id}_next_{counter}"
NextId(base, counter) == base \o "_next_" \o ToString(counter)

\* task_id.split("_next_")[0], for a caller's id or an id made by NextId
BaseOf(task_id) ==
    IF \E b \in BaseIds, k \in 1..MaxPetTasks : task_id = NextId(b, k)
    THEN CHOOSE b \in BaseIds : \E k \in 1..MaxPetTasks : task_id = NextId(b, k)
    ELSE task_id

\* mutant: the while loop left out, the counter stays at 1
FreshCounter_one(base, ts) == 1

\* the counter the while loop stops at: the first one whose id no task has
FreshCounter(base, ts) ==
    SetMin({k \in 1..(Len(ts) + 1) :
                \A i \in 1..Len(ts) : ts[i].id # NextId(base, k)})

\* mutant: an id that no task has is taken for the id of the last task
FirstWithId_or_last(ts, task_id) ==
    LET found == {i \in 1..Len(ts) : ts[i].id = task_id}
    IN IF found = {} THEN Len(ts) ELSE SetMin(found)

\* index of the first task with this id (0: there is none)
FirstWithId(ts, task_id) ==
    LET found == {i \in 1..Len(ts) : ts[i].id = task_id}
    IN IF found = {} THEN 0 ELSE SetMin(found)

\* mutant: the new task takes its id for title
NextOccurrence_retitled(task, new_id) ==
    [id |-> new_id, title |-> new_id,
     duration_minutes |-> task.duration_minutes, priority |-> task.priority,
     preferred_windows |-> task.preferred_windows, required |-> task.required,
     last_done |-> None, recurrence |-> task.recurrence,
     pet_id |-> Some(pets[ThePet].id), dependencies |-> task.dependencies]

\* the Task(...) built for the next occurrence (lines 231-242)
NextOccurrence(task, new_id) ==
    [id |-> new_id, title |-> task.title,
     duration_minutes |-> task.duration_minutes, priority |-> task.priority,
     preferred_windows |-> task.preferred_windows, required |-> task.required,
     last_done |-> None, recurrence |-> task.recurrence,
     pet_id |-> Some(pets[ThePet].id), dependencies |-> task.dependencies]

\* Pet.mark_task_complete on the list ts: [raised, tasks, value]
MarkTaskComplete(ts, task_id, clock) ==
    LET i == FirstWithId(ts, task_id)
        marked == [ts EXCEPT ![i].last_done = Some(clock)]
        new_task == NextOccurrence(marked[i],
                        NextId(BaseOf(task_id), FreshCounter(BaseOf(task_id), ts)))
    IN IF i = 0
       THEN [raised |-> TRUE, tasks |-> ts, value |-> None]
       ELSE IF marked[i].recurrence \in Recurring
       THEN [raised |-> FALSE, tasks |-> Append(marked, new_task),
             value |-> Some(new_task)]
       ELSE [raised |-> FALSE, tasks |-> marked, value |-> None]

\* hours between a completion and the start of the clock
Elapsed == {0, 4, 10, 23, 47, 143, 167, 335, 719}

DoneBefore == {None} \cup {Some(StartOfClock - h) : h \in Elapsed}

\* preferred windows of a scored task: none, one of length 1, or two of
\* which the second is the shorter
ScorePrefs ==
    {<<>>, <<Window(0, 1)>>, <<Window(0, MaxTime - 1), Window(1, MaxTime - 1)>>}

\* Score inputs: a pet with one task
ScoreTasks ==
    {[id |-> "t1", title |-> "walk", duration_minutes |-> d, priority |-> p,
      preferred_windows |-> prefs, required |-> req, last_done |-> done,
      recurrence |-> rec, pet_id |-> Some(Rex.id), dependencies |-> <<>>] :
        d \in Durations, p \in Priorities, prefs \in ScorePrefs,
        req \in BOOLEAN, done \in DoneBefore, rec \in Recurrences}

\* Mark inputs: a pet with a task t1 and, at most, a second task, which may
\* have the id of an occurrence of t1
MarkFirst ==
    {[id |-> "t1", title |-> "walk", duration_minutes |-> 1,
      priority |-> "high", preferred_windows |-> prefs, required |-> TRUE,
      last_done |-> done, recurrence |-> rec, pet_id |-> Some(Rex.id),
      dependencies |-> deps] :
        prefs \in {<<>>, <<Window(0, 1)>>}, deps \in {<<>>, <<"t2">>},
        done \in {None, Some(StartOfClock - 4)}, rec \in Recurrences}

MarkSecond ==
    {[id |-> id, title |-> "feed", duration_minutes |-> 2,
      priority |-> "low", preferred_windows |-> <<>>, required |-> FALSE,
      last_done |-> None, recurrence |-> rec, pet_id |-> Some(Rex.id),
      dependencies |-> <<>>] :
        id \in {"t2", NextId("t1", 1)}, rec \in {"daily", "as_needed"}}

PetInit ==
    /\ \/ tasks \in {<<t>> : t \in ScoreTasks}
       \/ tasks \in UpTo2(MarkFirst, MarkSecond) \ {<<>>}
    /\ availability = <<>>
    /\ now = StartOfClock
    /\ last_schedule = None
    /\ decision_log = <<>>
    /\ warnings = <<>>
    /\ runs = <<>>
    /\ manual = None
    /\ returned = None
    /\ owners = NoPetsYet
    /\ pets = OnePet
    /\ spawned = {}
    /\ schedulers = <<>>
    /\ threads = <<>>

\* scheduler.score_task(pet.tasks[i])
call_score_task(i) ==
    /\ returned' = Some([call |-> "score_task", task |-> tasks[i], clock |-> now,
                         value |-> score_task(tasks[i], now)])
    /\ UNCHANGED <<availability, tasks, now, last_schedule, decision_log,
                   warnings, runs, manual, owners, pets,
                   spawned, schedulers, threads>>

\* pet.tasks[i].is_overdue()
call_is_overdue(i) ==
    /\ returned' = Some([call |-> "is_overdue", task |-> tasks[i], clock |-> now,
                         value |-> is_overdue(tasks[i], now)])
    /\ UNCHANGED <<availability, tasks, now, last_schedule, decision_log,
                   warnings, runs, manual, owners, pets,
                   spawned, schedulers, threads>>

\* pet.mark_task_complete(task_id); before is the list the call found
mark_task_complete(task_id) ==
    /\ Len(tasks) < MaxPetTasks
    /\ \E r \in {MarkTaskComplete(tasks, task_id, now)} :
          /\ tasks' = r.tasks
          /\ returned' = Some([call |-> "mark_task_complete", task_id |-> task_id,
                               before |-> tasks, clock |-> now,
                               raised |-> r.raised, value |-> r.value])
          /\ spawned' = IF r.value = None THEN spawned
                         ELSE spawned \cup {The(r.value).id}
    /\ UNCHANGED <<availability, now, last_schedule, decision_log, warnings,
                   runs, manual, owners, pets,
                   schedulers, threads>>

\* an hour passes
advance_clock ==
    /\ now < StartOfClock + MaxTicks
    /\ now' = now + 1
    /\ UNCHANGED <<availability, tasks, last_schedule, decision_log, warnings,
                   runs, manual, returned, owners, pets,
                   spawned, schedulers, threads>>

PetNext ==
    \/ \E i \in 1..Len(tasks) : call_score_task(i)
    \/ \E i \in 1..Len(tasks) : call_is_overdue(i)
    \/ \E task_id \in {"t1", "t2", "zz", NextId("t1", 1)} :
            mark_task_complete(task_id)
    \/ advance_clock

PetSpec == PetInit /\ [][PetNext]_vars

\* ------------------------------------------------------- Owner and its Pets
\* mutant: the check for a task with the same id left out
DuplicateId_never(ts, t) == FALSE

\* any(task.id == t.id for task in self.tasks)
DuplicateId(ts, t) == \E i \in 1..Len(ts) : ts[i].id = t.id

\* Pet.add_task(t) on the list ts of the Pet with this id:
\* [raised, tasks, task], task being t as the call leaves it
AddTask(ts, t, pet_id) ==
    IF t.id = ""
    THEN [raised |-> TRUE, tasks |-> ts, task |-> t]
    ELSE IF DuplicateId(ts, t)
    THEN [raised |-> TRUE, tasks |-> ts, task |-> t]
    ELSE [raised |-> FALSE,
          tasks |-> Append(ts, [t EXCEPT !.pet_id = Some(pet_id)]),
          task |-> [t EXCEPT !.pet_id = Some(pet_id)]]

\* pet in self.pets: list membership is by identity or, failing that, by the
\* equality of all fields (Pet is a dataclass)
InPets(list, p, heap) == \E i \in 1..Len(list) : list[i] = p \/ heap[list[i]] = heap[p]

\* Home inputs: the pet Rex with no task, one or two; a second Pet object
\* Milo, which may have the id and name of Rex, and then the owner_id Rex will
\* get; two owners without pets
HomeTasks ==
    {<<>>,
     <<NewTask("t1", 1, "medium", FALSE, <<>>, <<>>, None)>>,
     <<NewTask("t1", 1, "medium", FALSE, <<>>, <<>>, None),
       NewTask("t2", 1, "medium", FALSE, <<>>, <<>>, None)>>}

PetRefs == {ThePet, "milo"}

Milos ==
    {NewPet("p2", "Milo", None), NewPet("p1", "Rex", None),
     NewPet("p1", "Rex", Some("o1"))}

\* the tasks a caller hands to add_task, besides those the pet has: built by
\* Task(...), for no pet or for another pet; the id may have been cleared since
AddCandidates ==
    {[NewTask(id, 1, "medium", FALSE, <<>>, <<>>, None) EXCEPT
            !.title = "bath", !.pet_id = pid] :
        id \in {"", "t1", "t2", "t3"}, pid \in {None, Some("p2")}}

HomeInit ==
    /\ tasks \in HomeTasks
    /\ pets \in {[p \in PetRefs |-> IF p = ThePet THEN Rex ELSE m] : m \in Milos}
    /\ owners = NoPetsYet
    /\ availability = <<>>
    /\ now = StartOfClock
    /\ last_schedule = None
    /\ decision_log = <<>>
    /\ warnings = <<>>
    /\ runs = <<>>
    /\ manual = None
    /\ returned = None
    /\ spawned = {}
    /\ schedulers = <<>>
    /\ threads = <<>>

\* pet.add_task(t) on ThePet; before is the list the call found, given the
\* task as it was handed over
add_task(t) ==
    /\ Len(tasks) < MaxPetTasks
    /\ \E r \in {AddTask(tasks, t, pets[ThePet].id)} :
          /\ tasks' = r.tasks
          /\ returned' = Some([call |-> "add_task", given |-> t, before |-> tasks,
                               raised |-> r.raised, task |-> r.task])
    /\ UNCHANGED <<availability, now, last_schedule, decision_log, warnings,
                   runs, manual, owners, pets,
                   spawned, schedulers, threads>>

\* owner.add_pet(pet), for the Owner object o and the Pet object p
add_pet(o, p) ==
    /\ IF InPets(owners[o].pets, p, pets)
       THEN UNCHANGED <<owners, pets>>
       ELSE /\ owners' = [owners EXCEPT ![o].pets = Append(@, p)]
            /\ pets' = [pets EXCEPT ![p].owner_id = Some(owners[o].id)]
    /\ returned' = Some([call |-> "add_pet", owner |-> o, pet |-> p,
                         before |-> owners[o].pets])
    /\ UNCHANGED <<availability, tasks, now, last_schedule, decision_log,
                   warnings, runs, manual,
                   spawned, schedulers, threads>>

\* Owner.remove_pet on the list of Pet objects: [pets, value]
RemovePet(list, pet_id, heap) ==
    LET Others(p) == heap[p].id # pet_id
    IN [pets |-> SelectSeq(list, Others),
        value |-> Len(SelectSeq(list, Others)) < Len(list)]

\* owner.remove_pet(pet_id), for the Owner object o; the Pet objects are left
\* as they are
remove_pet(o, pet_id) ==
    /\ \E r \in {RemovePet(owners[o].pets, pet_id, pets)} :
          /\ owners' = [owners EXCEPT ![o].pets = r.pets]
          /\ returned' = Some([call |-> "remove_pet", owner |-> o,
                               pet_id |-> pet_id, before |-> owners[o].pets,
                               value |-> r.value])
    /\ UNCHANGED <<availability, tasks, now, last_schedule, decision_log,
                   warnings, runs, manual, pets, spawned, schedulers, threads>>

HomeNext ==
    \/ \E t \in AddCandidates \cup Range(tasks) : add_task(t)
    \/ \E o \in OwnerRefs, p \in PetRefs : add_pet(o, p)
    \/ \E o \in OwnerRefs, pet_id \in {"p1", "p2", "p9"} : remove_pet(o, pet_id)

HomeSpec == HomeInit /\ [][HomeNext]_vars

\* ------------------------------------------------- a Pet from its first task
\* Pet.remove_task on the list ts: [tasks, value]
RemoveTask(ts, task_id) ==
    LET Others(t) == t.id # task_id
    IN [tasks |-> SelectSeq(ts, Others),
        value |-> Len(SelectSeq(ts, Others)) < Len(ts)]

\* pet.remove_task(task_id) on ThePet
remove_task(task_id) ==
    /\ \E r \in {RemoveTask(tasks, task_id)} :
          /\ tasks' = r.tasks
          /\ returned' = Some([call |-> "remove_task", task_id |-> task_id,
                               before |-> tasks, value |-> r.value])
    /\ UNCHANGED <<availability, now, last_schedule, decision_log, warnings,
                   runs, manual, owners, pets, spawned, schedulers, threads>>

\* the ids a caller names: of its own tasks, of occurrences, of no task
LifeIds == {"t1", "t2", "zz", NextId("t1", 1), NextId("t1", 2)}

\* Life inputs: the tasks a caller builds for the pet, one-off or daily; the id
\* may be that of an occurrence of t1, or have been cleared since
LifeCandidates ==
    {[NewTask(id, 1, "medium", FALSE, <<>>, <<>>, None) EXCEPT
            !.recurrence = rec, !.pet_id = None] :
        id \in {"", "t1", "t2", NextId("t1", 1)}, rec \in {"daily", "as_needed"}}

\* the pet Rex as Pet(id, name) leaves it: no task
LifeInit ==
    /\ tasks = <<>>
    /\ pets = OnePet
    /\ owners = NoPetsYet
    /\ availability = <<>>
    /\ now = StartOfClock
    /\ last_schedule = None
    /\ decision_log = <<>>
    /\ warnings = <<>>
    /\ runs = <<>>
    /\ manual = None
    /\ returned = None
    /\ spawned = {}
    /\ schedulers = <<>>
    /\ threads = <<>>

LifeNext ==
    \/ \E t \in LifeCandidates \cup Range(tasks) : add_task(t)
    \/ \E task_id \in LifeIds : remove_task(task_id)
    \/ \E task_id \in LifeIds : mark_task_complete(task_id)

LifeSpec == LifeInit /\ [][LifeNext]_vars

\* ------------------------------------------- TimeWindow and Task objects
\* Here a time of day is a number of seconds, so that windows which do not
\* begin or end on a whole minute are among the inputs.
SecondsPerMinute == 60

\* mutant: a window that ends when it starts is let through
TimeWindowAt_lenient(s, e) ==
    IF s > e
    THEN [raised |-> TRUE, value |-> None]
    ELSE [raised |-> FALSE,
          value |-> Some([start |-> s, end |-> e,
                          _duration_cache |-> (e - s) \div SecondsPerMinute])]

\* TimeWindow(start, end): [raised, value]; _calculate_duration is
\* int(delta.total_seconds() / 60)
TimeWindowAt(s, e) ==
    IF s >= e
    THEN [raised |-> TRUE, value |-> None]
    ELSE [raised |-> FALSE,
          value |-> Some([start |-> s, end |-> e,
                          _duration_cache |-> (e - s) \div SecondsPerMinute])]

\* TimeWindow.duration_minutes of a constructed window: the cached value
cached_duration_minutes(w) == w._duration_cache

\* TimeWindow.fits_task of a constructed window
cached_fits_task(w, d) == cached_duration_minutes(w) >= d

\* Task(id, title, duration_minutes): [raised, value]
TaskAt(id, title, d) ==
    Bind([NewTask(id, d, "medium", FALSE, <<>>, <<>>, None) EXCEPT
              !.title = title, !.pet_id = None], LAMBDA t :
        IF ValidTask(t)
        THEN [raised |-> FALSE, value |-> Some(t)]
        ELSE [raised |-> TRUE, value |-> None])

\* times of day half a minute apart
Seconds == {(SecondsPerMinute \div 2) * k : k \in {0, 1, 2, 3, 4}}

\* the windows that can be constructed from them
ExactWindows ==
    {The(TimeWindowAt(p[1], p[2]).value) :
        p \in {q \in Seconds \X Seconds : ~TimeWindowAt(q[1], q[2]).raised}}

TaskLengths == {-1, 0, 1, MaxTaskMinutes, MaxTaskMinutes + 1}

\* Value inputs: one availability window, the whole day, and up to two
\* optional tasks with the same preferred window in mid-day
ValueTasks(id) == {NewTask(id, 1, "medium", FALSE, <<Window(1, 2)>>, <<>>, None)}

ValueInit ==
    /\ availability = <<Window(0, MaxTime)>>
    /\ tasks \in UpTo2(ValueTasks("t1"), ValueTasks("t2"))
    /\ now = StartOfClock
    /\ last_schedule = None
    /\ decision_log = <<>>
    /\ warnings = <<>>
    /\ runs = <<>>
    /\ manual = None
    /\ returned = None
    /\ owners = NoPetsYet
    /\ pets = OnePet
    /\ spawned = {}
    /\ schedulers = <<>>
    /\ threads = <<>>

\* TimeWindow(start=s, end=e)
new_TimeWindow(s, e) ==
    /\ returned' = Some([call |-> "TimeWindow", start |-> s, end |-> e,
                         raised |-> TimeWindowAt(s, e).raised,
                         value |-> TimeWindowAt(s, e).value])
    /\ UNCHANGED <<availability, tasks, now, last_schedule, decision_log,
                   warnings, runs, manual, owners, pets,
                   spawned, schedulers, threads>>

\* a.overlaps(b), and b.overlaps(a)
call_overlaps(a, b) ==
    /\ returned' = Some([call |-> "overlaps", a |-> a, b |-> b,
                         value |-> overlaps(a, b), reverse |-> overlaps(b, a)])
    /\ UNCHANGED <<availability, tasks, now, last_schedule, decision_log,
                   warnings, runs, manual, owners, pets,
                   spawned, schedulers, threads>>

\* w.duration_minutes()
call_duration_minutes(w) ==
    /\ returned' = Some([call |-> "duration_minutes", window |-> w,
                         value |-> cached_duration_minutes(w)])
    /\ UNCHANGED <<availability, tasks, now, last_schedule, decision_log,
                   warnings, runs, manual, owners, pets,
                   spawned, schedulers, threads>>

\* w.fits_task(d)
call_fits_task(w, d) ==
    /\ returned' = Some([call |-> "fits_task", window |-> w, d |-> d,
                         value |-> cached_fits_task(w, d)])
    /\ UNCHANGED <<availability, tasks, now, last_schedule, decision_log,
                   warnings, runs, manual, owners, pets,
                   spawned, schedulers, threads>>

\* Task(id=id, title=title, duration_minutes=d)
new_Task(id, title, d) ==
    /\ returned' = Some([call |-> "Task", id |-> id, title |-> title, d |-> d,
                         raised |-> TaskAt(id, title, d).raised,
                         value |-> TaskAt(id, title, d).value])
    /\ UNCHANGED <<availability, tasks, now, last_schedule, decision_log,
                   warnings, runs, manual, owners, pets,
                   spawned, schedulers, threads>>

ValueNext ==
    \/ \E s \in Seconds, e \in Seconds : new_TimeWindow(s, e)
    \/ \E a \in ExactWindows, b \in ExactWindows : call_overlaps(a, b)
    \/ \E w \in ExactWindows : call_duration_minutes(w)
    \/ \E w \in ExactWindows, d \in 0..MaxDur : call_fits_task(w, d)
    \/ \E id \in {"", "t1"}, title \in {"", "walk"}, d \in TaskLengths :
            new_Task(id, title, d)
    \/ generate_schedule(None)

ValueSpec == ValueInit /\ [][ValueNext]_vars

\* ------------------------------------- generate_schedule calls in threads
\* Two threads each make one generate_schedule call. What a call computes from
\* its inputs (the Schedule, the lines it logs, the warnings it appends) does
\* not depend on the Scheduler's fields, so it is taken from RunGenerate; what
\* the call does to the fields of its Scheduler is a program of steps, one per
\* statement that reads or writes self.decision_log, self.warnings or
\* self.last_schedule, and a thread switch may fall between any two of them.
SchedulerRefs == {"s1", "s2"}

ThreadIds == {"a", "b"}

\* Scheduler.__init__
NewScheduler == [last_schedule |-> None, decision_log |-> <<>>, warnings |-> <<>>]

\* the steps one logged line stands for: a conflict line is logged right after
\* its warning was appended (lines 512-513)
StepsOfLine(line) ==
    IF line.kind = "->"
    THEN <<[op |-> "warn", what |-> line.warning], [op |-> "log", what |-> line]>>
    ELSE <<[op |-> "log", what |-> line]>>

RECURSIVE StepsOfLines(_)
StepsOfLines(lines) ==
    IF lines = <<>> THEN <<>>
    ELSE StepsOfLine(Head(lines)) \o StepsOfLines(Tail(lines))

\* the steps of the call whose run, taken alone, is r; the caller reads
\* get_warnings() when the call has returned
Program(r) ==
    <<[op |-> "reset_log"], [op |-> "reset_warnings"]>>
    \o StepsOfLines(r.decision_log)
    \o <<[op |-> "explain"], [op |-> "remember"], [op |-> "get_warnings"]>>

\* a thread about to call generate_schedule(owner, pet, date, aw) on a Scheduler
NewThread(on, aw) ==
    Bind(RunGenerate(<<>>, <<>>, availability, tasks, aw, now), LAMBDA r :
        [on |-> on, pc |-> 1, program |-> Program(r),
         schedule |-> [r.schedule EXCEPT !.explanation = <<>>],
         result |-> None, got_warnings |-> None])

\* Thread inputs: an owner with at most one window, a pet with one task or
\* with two required tasks that have the same preferred window; the calls use
\* the owner's availability or a window passed to them
ThreadInputs ==
    /\ availability \in {<<>>, <<Window(0, 1)>>}
    /\ tasks \in {<<NewTask("t1", 1, "medium", FALSE, <<>>, <<>>, None)>>,
                  <<NewTask("t1", 1, "critical", TRUE, <<Window(0, 1)>>, <<>>, None),
                    NewTask("t2", 1, "high", TRUE, <<Window(0, 1)>>, <<>>, None)>>}

ThreadInit ==
    /\ ThreadInputs
    /\ now = StartOfClock
    /\ last_schedule = None
    /\ decision_log = <<>>
    /\ warnings = <<>>
    /\ runs = <<>>
    /\ manual = None
    /\ returned = None
    /\ owners = NoPetsYet
    /\ pets = OnePet
    /\ spawned = {}
    /\ schedulers = [s \in SchedulerRefs |-> NewScheduler]
    /\ \E on \in SchedulerRefs, aw \in {None, Some(<<Window(1, 2)>>)} :
          threads = [t \in ThreadIds |->
                        IF t = "a" THEN NewThread("s1", None) ELSE NewThread(on, aw)]

\* the step thread t is at, or None when its program has ended
AtStep(t) ==
    IF threads[t].pc > Len(threads[t].program) THEN None
    ELSE Some(threads[t].program[threads[t].pc])

Sequential ==
    <<availability, tasks, now, last_schedule, decision_log, warnings, runs,
      manual, returned, owners, pets, spawned>>

\* self.decision_log = []  (line 386)
reset_decision_log(t) ==
    /\ AtStep(t) = Some([op |-> "reset_log"])
    /\ schedulers' = [schedulers EXCEPT ![threads[t].on].decision_log = <<>>]
    /\ threads' = [threads EXCEPT ![t].pc = @ + 1]
    /\ UNCHANGED Sequential

\* self.warnings = []  (line 387)
reset_warnings(t) ==
    /\ AtStep(t) = Some([op |-> "reset_warnings"])
    /\ schedulers' = [schedulers EXCEPT ![threads[t].on].warnings = <<>>]
    /\ threads' = [threads EXCEPT ![t].pc = @ + 1]
    /\ UNCHANGED Sequential

\* mutant: the line is appended to the log of every Scheduler
_log_everywhere(ss, on, line) ==
    [s \in DOMAIN ss |-> [ss[s] EXCEPT !.decision_log = Append(@, line)]]

\* Scheduler._log: self.decision_log.append(message)
_log(ss, on, line) == [ss EXCEPT ![on].decision_log = Append(@, line)]

\* a call of self._log(...)
log_line(t) ==
    /\ AtStep(t) # None
    /\ The(AtStep(t)).op = "log"
    /\ schedulers' = _log(schedulers, threads[t].on, The(AtStep(t)).what)
    /\ threads' = [threads EXCEPT ![t].pc = @ + 1]
    /\ UNCHANGED Sequential

\* self.warnings.append(warning_msg)  (line 512)
append_warning(t) ==
    /\ AtStep(t) # None
    /\ The(AtStep(t)).op = "warn"
    /\ schedulers' = [schedulers EXCEPT ![threads[t].on].warnings =
                          Append(@, The(AtStep(t)).what)]
    /\ threads' = [threads EXCEPT ![t].pc = @ + 1]
    /\ UNCHANGED Sequential

\* schedule.explanation = "\n".join(self.decision_log)  (line 436)
write_explanation(t) ==
    /\ AtStep(t) = Some([op |-> "explain"])
    /\ threads' = [threads EXCEPT
            ![t].schedule.explanation = schedulers[threads[t].on].decision_log,
            ![t].pc = @ + 1]
    /\ UNCHANGED <<schedulers, Sequential>>

\* self.last_schedule = schedule; return schedule  (lines 437-439)
set_last_schedule(t) ==
    /\ AtStep(t) = Some([op |-> "remember"])
    /\ schedulers' = [schedulers EXCEPT
            ![threads[t].on].last_schedule = Some(threads[t].schedule)]
    /\ threads' = [threads EXCEPT
            ![t].result = Some(threads[t].schedule), ![t].pc = @ + 1]
    /\ UNCHANGED Sequential

\* the caller's scheduler.get_warnings() after its call returned
call_get_warnings(t) ==
    /\ AtStep(t) = Some([op |-> "get_warnings"])
    /\ threads' = [threads EXCEPT
            ![t].got_warnings = Some(get_warnings(schedulers[threads[t].on].warnings)),
            ![t].pc = @ + 1]
    /\ UNCHANGED <<schedulers, Sequential>>

ThreadNext ==
    \E t \in ThreadIds :
        \/ reset_decision_log(t)
        \/ reset_warnings(t)
        \/ log_line(t)
        \/ append_warning(t)
        \/ write_explanation(t)
        \/ set_last_schedule(t)
        \/ call_get_warnings(t)

ThreadSpec == ThreadInit /\ [][ThreadNext]_vars

\* ----------------------------------------------------------------- claims
\* every Schedule there is: those the calls returned and the caller's own
Schedules ==
    {runs[i].run.schedule : i \in 1..Len(runs)}
        \cup (IF manual = None THEN {} ELSE {The(manual)})

Runs == {runs[i] : i \in 1..Len(runs)}

\* the call that returned last; every call is the latest when it returns, so
\* what holds of the latest call in every state holds of every call
LatestRun == IF runs = <<>> THEN {} ELSE {runs[Len(runs)]}

Ids(s) == {s[i].task.id : i \in 1..Len(s)}

\* two placements share time of positive length
ShareTime(a, b) == a.start_time < b.end_time /\ b.start_time < a.end_time

\* the windows a call ran with
WindowsOf(call) == ResolveWindows(call.aw, availability)

\* C1: no two distinct entries of scheduled_tasks share time, in every Schedule
\* filled by add_scheduled_task calls or returned by generate_schedule, and
\* get_conflicts() finds nothing there
C1_NoOverlap ==
    \A sch \in Schedules :
        /\ \A i, j \in 1..Len(sch.scheduled_tasks) :
              i # j => ~ShareTime(sch.scheduled_tasks[i], sch.scheduled_tasks[j])
        /\ get_conflicts(sch) = {}

\* a run refused an overlapping candidate and placed two tasks end to start
C1_Witness ==
    \E c \in Runs :
        /\ c.run.warnings # <<>>
        /\ \E i, j \in 1..Len(c.run.schedule.scheduled_tasks) :
              c.run.schedule.scheduled_tasks[i].end_time
                  = c.run.schedule.scheduled_tasks[j].start_time

\* C2: every scheduled task of a returned Schedule lies inside one of the
\* availability windows the call ran with
C2_WithinAvailability ==
    \A c \in Runs :
        \A i \in 1..Len(c.run.schedule.scheduled_tasks) :
            \E k \in 1..Len(WindowsOf(c)) :
                /\ WindowsOf(c)[k].start <= c.run.schedule.scheduled_tasks[i].start_time
                /\ c.run.schedule.scheduled_tasks[i].end_time <= WindowsOf(c)[k].end

\* the [SCHEDULED] and [SKIPPED] lines of a log, in order
Outcomes(log) ==
    LET IsOutcome(e) == e.kind \in {"[SCHEDULED]", "[SKIPPED]"}
    IN SelectSeq(log, IsOutcome)

TaskById(id) == CHOOSE t \in Range(tasks) : t.id = id

\* C3: in a run every required task is attempted, and its outcome logged,
\* before any optional task, and no optional task is placed while a required
\* task is unattempted
C3_RequiredFirst ==
    \A c \in Runs :
        /\ \A i, j \in 1..Len(c.run.attempts) :
              (c.run.attempts[i].task.required /\ ~c.run.attempts[j].task.required)
                  => i < j
        /\ \A i, j \in 1..Len(Outcomes(c.run.decision_log)) :
              (/\ TaskById(Outcomes(c.run.decision_log)[i].title).required
               /\ ~TaskById(Outcomes(c.run.decision_log)[j].title).required)
                  => i < j
        /\ \A i \in 1..Len(c.run.attempts) :
              c.run.attempts[i].task.required =>
                  \A k \in 1..Len(c.run.attempts[i].placed_before) :
                      c.run.attempts[i].placed_before[k].task.required

\* a required task was attempted before an optional task that has the strictly
\* higher score and stands earlier in pet.tasks, and both were placed
C3_Witness ==
    \E c \in Runs :
        \E i, j \in 1..Len(c.run.attempts) :
            /\ i < j
            /\ c.run.attempts[i].task.required
            /\ ~c.run.attempts[j].task.required
            /\ ScoreLess(c.run.attempts[i].score, c.run.attempts[j].score)
            /\ c.run.attempts[j].task = tasks[1]
            /\ c.run.attempts[i].scheduled
            /\ c.run.attempts[j].scheduled

\* no task of the pet has a preferred window or a dependency
PlainPet == \A t \in Range(tasks) : t.preferred_windows = <<>> /\ t.dependencies = <<>>

\* no two windows of the list overlap
Disjoint(ws) == \A i, j \in 1..Len(ws) : i # j => ~overlaps(ws[i], ws[j])

\* window w has d contiguous minutes that no placement of the list touches
FreeStretch(placed, w, d) ==
    \E s \in w.start..(w.end - d) :
        \A k \in 1..Len(placed) :
            ~ShareTime([start_time |-> s, end_time |-> s + d], placed[k])

\* C4: with no preferred windows, no dependencies and availability windows
\* that do not overlap, a task is left unscheduled only if, when it is
\* attempted, no availability window has a free stretch as long as the task
C4_LeftoverReused ==
    \A c \in Runs :
        (PlainPet /\ Disjoint(WindowsOf(c))) =>
            \A i \in 1..Len(c.run.attempts) :
                ~c.run.attempts[i].scheduled =>
                    \A k \in 1..Len(WindowsOf(c)) :
                        ~FreeStretch(c.run.attempts[i].placed_before, WindowsOf(c)[k],
                                     c.run.attempts[i].task.duration_minutes)

\* position of the task with this id in a list of placements (0: not there)
PlaceOf(s, id) ==
    IF id \in Ids(s) THEN CHOOSE i \in 1..Len(s) : s[i].task.id = id ELSE 0

\* C5: a scheduled task's dependencies were all placed earlier in the run and
\* are in scheduled_tasks; a task attempted with an unmet dependency is
\* unscheduled, with no window tried and no warning added
C5_DependenciesGate ==
    \A c \in Runs :
        \A i \in 1..Len(c.run.attempts) :
            LET a == c.run.attempts[i]
                unmet == {d \in Range(a.task.dependencies) :
                            d \notin Ids(a.placed_before)}
            IN /\ a.scheduled =>
                    /\ unmet = {}
                    /\ Range(a.task.dependencies)
                           \subseteq Ids(c.run.schedule.scheduled_tasks)
               /\ unmet # {} =>
                    /\ ~a.scheduled
                    /\ a.task \in Range(c.run.schedule.unscheduled_tasks)
                    /\ a.tried = 0
                    /\ a.new_warnings = 0

\* one call placed a task after the dependency it names; another call on the
\* same pet left that task unscheduled, its dependency unmet, though a pool
\* window could hold it
C5_Witness ==
    \E c1, c2 \in Runs :
        \E i \in 1..Len(c1.run.attempts), j \in 1..Len(c2.run.attempts) :
            /\ c1.run.attempts[i].scheduled
            /\ c1.run.attempts[i].task.dependencies # <<>>
            /\ ~c2.run.attempts[j].scheduled
            /\ c2.run.attempts[j].task = c1.run.attempts[i].task
            /\ c2.run.attempts[j].tried = 0
            /\ \E w \in Range(c2.run.attempts[j].pool_before) :
                  fits_task(w, c2.run.attempts[j].task.duration_minutes)

\* C6: a scheduled dependency ends no later than its dependent starts
C6_DependencyEndsFirst ==
    \A c \in Runs :
        LET s == c.run.schedule.scheduled_tasks
        IN \A i \in 1..Len(s) :
              \A d \in Range(s[i].task.dependencies) :
                  PlaceOf(s, d) # 0 => s[PlaceOf(s, d)].end_time <= s[i].start_time

Count(s, x) == Cardinality({i \in 1..Len(s) : s[i] = x})

PlacedTasks(sch) == [i \in 1..Len(sch.scheduled_tasks) |-> sch.scheduled_tasks[i].task]

\* C7: a call returns a Schedule in which every task of the pet is exactly once
\* in scheduled_tasks or in unscheduled_tasks; every ScheduledTask and every
\* TimeWindow the run constructed is valid, so no constructor raised
C7_EveryTaskOnce ==
    \A c \in Runs :
        /\ \A t \in Range(tasks) :
              Count(PlacedTasks(c.run.schedule), t)
                  + Count(c.run.schedule.unscheduled_tasks, t) = 1
        /\ Len(c.run.schedule.scheduled_tasks)
              + Len(c.run.schedule.unscheduled_tasks) = Len(tasks)
        /\ \A i \in 1..Len(c.run.schedule.scheduled_tasks) :
              ValidScheduledTask(c.run.schedule.scheduled_tasks[i])
        /\ \A i \in 1..Len(c.run.attempts) :
              \A w \in Range(c.run.attempts[i].pool_after) : ValidWindow(w)

\* a run placed a task, left another unscheduled and refused an overlap
C7_Witness ==
    \E c \in Runs :
        /\ c.run.schedule.scheduled_tasks # <<>>
        /\ c.run.schedule.unscheduled_tasks # <<>>
        /\ c.run.warnings # <<>>

SumDurations(s) == SumSeq([i \in 1..Len(s) |-> s[i].task.duration_minutes])

\* C8: total_minutes_scheduled is the sum of the durations of the tasks in
\* scheduled_tasks, after any add_scheduled_task calls and in returned Schedules
C8_TotalIsSum ==
    \A sch \in Schedules :
        sch.total_minutes_scheduled = SumDurations(sch.scheduled_tasks)

\* a returned Schedule holds two tasks after a refused add_scheduled_task call
C8_Witness ==
    \E c \in Runs :
        /\ Len(c.run.schedule.scheduled_tasks) >= 2
        /\ c.run.warnings # <<>>

Placements(sch) ==
    {<<sch.scheduled_tasks[i].task.id, sch.scheduled_tasks[i].start_time,
       sch.scheduled_tasks[i].end_time>> : i \in 1..Len(sch.scheduled_tasks)}

TwoTasks(da, db) ==
    /\ Len(tasks) = 2
    /\ \E i, j \in 1..2 :
          /\ i # j
          /\ tasks[i].duration_minutes = da /\ tasks[i].priority = "critical"
          /\ tasks[i].required
          /\ tasks[j].duration_minutes = db /\ tasks[j].priority = "low"
          /\ ~tasks[j].required

\* C10: with one availability window and no preferred windows or dependencies,
\* tasks are placed back to back from the window's start in attempt order; a
\* task is scheduled iff it is no longer than what earlier placements left of
\* the window, else unscheduled without a warning. A window of 4 quarters holds
\* tasks of 2 and 2 (utilization 100%), and of tasks of 3 (critical, required)
\* and 2 (low) only the first
C10_SingleWindowPacking ==
    \A c \in Runs :
        (PlainPet /\ Len(WindowsOf(c)) = 1) =>
            LET w == WindowsOf(c)[1]
                sch == c.run.schedule
            IN /\ \A i \in 1..Len(c.run.attempts) :
                    LET a == c.run.attempts[i]
                        used == SumDurations(a.placed_before)
                    IN /\ a.scheduled <=>
                            a.task.duration_minutes <= duration_minutes(w) - used
                       /\ a.scheduled =>
                            <<a.task.id, w.start + used,
                              w.start + used + a.task.duration_minutes>>
                                \in Placements(sch)
                       /\ ~a.scheduled => a.task \in Range(sch.unscheduled_tasks)
                       /\ a.new_warnings = 0
               /\ c.run.warnings = <<>>
               /\ (duration_minutes(w) = 4 /\ TwoTasks(2, 2)) =>
                    /\ Len(sch.scheduled_tasks) = 2
                    /\ sch.unscheduled_tasks = <<>>
                    /\ get_utilization_rate(sch).num = 100 * get_utilization_rate(sch).den
               /\ (duration_minutes(w) = 4 /\ TwoTasks(3, 2)) =>
                    /\ Len(sch.scheduled_tasks) = 1
                    /\ sch.scheduled_tasks[1].task.duration_minutes = 3
                    /\ Len(sch.unscheduled_tasks) = 1
                    /\ sch.unscheduled_tasks[1].duration_minutes = 2

\* the scenario of 3 and 2 quarters in a window of 4 was run
C10_Witness ==
    \E c \in Runs :
        /\ PlainPet
        /\ Len(WindowsOf(c)) = 1
        /\ duration_minutes(WindowsOf(c)[1]) = 4
        /\ TwoTasks(3, 2)
        /\ Len(c.run.schedule.unscheduled_tasks) = 1

\* the pet of the scenario: two required tasks without dependencies, of the
\* same duration and differing scores, with the same single preferred window,
\* which can hold one of them
TwinPet ==
    /\ Len(tasks) = 2
    /\ \A i \in 1..2 :
          /\ tasks[i].required
          /\ tasks[i].dependencies = <<>>
          /\ Len(tasks[i].preferred_windows) = 1
    /\ tasks[1].duration_minutes = tasks[2].duration_minutes
    /\ tasks[1].preferred_windows = tasks[2].preferred_windows
    /\ fits_task(tasks[1].preferred_windows[1], tasks[1].duration_minutes)
    /\ ~ScoreEq(score_task(tasks[1], now), score_task(tasks[2], now))

\* the placement of a task of duration d at the start of window w
AtStart(w, d) == [start_time |-> w.start, end_time |-> w.start + d]

\* the pool windows, by index, that can hold the second task of the run but
\* whose start makes it overlap the first placement
PoolRefusals(c) ==
    {k \in 1..Len(c.run.attempts[2].pool_before) :
        /\ fits_task(c.run.attempts[2].pool_before[k], tasks[1].duration_minutes)
        /\ ShareTime(AtStart(c.run.attempts[2].pool_before[k],
                             tasks[1].duration_minutes),
                     AtStart(tasks[1].preferred_windows[1],
                             tasks[1].duration_minutes))}

\* what the scenario says of a call, but for the number of warnings: the
\* higher-scored task is at the start of the preferred window; the second is
\* placed at the start of a pool window, inside the availability, iff one can
\* hold it clear of the first, else it is unscheduled; nothing overlaps
TwinPlacement(c) ==
    LET a1 == c.run.attempts[1]
        a2 == c.run.attempts[2]
        d == tasks[1].duration_minutes
        sch == c.run.schedule
    IN /\ ScoreLess(a2.score, a1.score)
       /\ a1.scheduled
       /\ <<a1.task.id, tasks[1].preferred_windows[1].start,
             tasks[1].preferred_windows[1].start + d>> \in Placements(sch)
       /\ a2.scheduled <=>
             \E k \in 1..Len(a2.pool_before) :
                 /\ fits_task(a2.pool_before[k], d)
                 /\ k \notin PoolRefusals(c)
       /\ a2.scheduled =>
             \E k \in 1..Len(a2.pool_before) :
                 /\ <<a2.task.id, a2.pool_before[k].start,
                       a2.pool_before[k].start + d>> \in Placements(sch)
                 /\ \E w \in Range(WindowsOf(c)) :
                       /\ w.start <= a2.pool_before[k].start
                       /\ a2.pool_before[k].start + d <= w.end
       /\ ~a2.scheduled => sch.unscheduled_tasks = <<a2.task>>
       /\ \A i, j \in 1..Len(sch.scheduled_tasks) :
             i # j => ~ShareTime(sch.scheduled_tasks[i], sch.scheduled_tasks[j])

Holds(w, d) == w.end - w.start >= d

\* C12: the first task attempted in a run is the highest-scored required task,
\* or the highest-scored task when none is required; if it has no dependencies
\* and one of its preferred windows or of the call's availability windows is
\* at least as long as the task, it is in scheduled_tasks of the returned
\* Schedule
C12_TopRankedPlaced ==
    \A c \in LatestRun :
        tasks # <<>> =>
            LET a == c.run.attempts[1]
                group == IF \E t \in Range(tasks) : t.required
                         THEN {t \in Range(tasks) : t.required}
                         ELSE Range(tasks)
            IN /\ a.task \in group
               /\ a.placed_before = <<>>
               /\ \A t \in group : ~ScoreLess(a.score, score_task(t, now))
               /\ (/\ a.task.dependencies = <<>>
                   /\ \/ \E w \in Range(a.task.preferred_windows) :
                            Holds(w, a.task.duration_minutes)
                      \/ \E w \in Range(WindowsOf(c)) :
                            Holds(w, a.task.duration_minutes))
                      => /\ a.scheduled
                         /\ a.task.id \in Ids(c.run.schedule.scheduled_tasks)

\* a critical required task, second in pet.tasks, fills the whole window and
\* is scheduled; the low optional task before it in the list is left out
C12_Witness ==
    \E c \in Runs :
        /\ Len(tasks) = 2
        /\ Len(WindowsOf(c)) = 1
        /\ tasks[2].priority = "critical" /\ tasks[2].required
        /\ tasks[1].priority = "low" /\ ~tasks[1].required
        /\ tasks[2].duration_minutes = duration_minutes(WindowsOf(c)[1])
        /\ Ids(c.run.schedule.scheduled_tasks) = {tasks[2].id}
        /\ c.run.schedule.unscheduled_tasks = <<tasks[1]>>

RECURSIVE Concat(_)
Concat(ss) == IF ss = <<>> THEN <<>> ELSE Head(ss) \o Concat(Tail(ss))

\* the windows an attempt handed to _schedule_in_window, in order
TriedWindows(a) == SubSeq(a.task.preferred_windows \o a.pool_before, 1, a.tried)

\* those of them that did not take the task
RefusedWindows(a) ==
    IF a.scheduled THEN SubSeq(TriedWindows(a), 1, a.tried - 1) ELSE TriedWindows(a)

\* the placed tasks that the task of attempt a, put at the start of w, overlaps
Hit(a, w) ==
    LET Shares(e) == ShareTime(AtStart(w, a.task.duration_minutes), e)
    IN IF Holds(w, a.task.duration_minutes)
       THEN SelectSeq(a.placed_before, Shares) ELSE <<>>

\* the warnings owed for window w: one per placed task overlapped
RefusalWarnings(a, w) ==
    [k \in 1..Len(Hit(a, w)) |->
        [kind |-> "CONFLICT", title |-> a.task.title,
         start |-> w.start, end |-> w.start + a.task.duration_minutes,
         other |-> Hit(a, w)[k].task.title,
         other_start |-> Hit(a, w)[k].start_time,
         other_end |-> Hit(a, w)[k].end_time]]

AttemptWarnings(a) ==
    Concat([k \in 1..Len(RefusedWindows(a)) |->
                RefusalWarnings(a, RefusedWindows(a)[k])])

\* C13: in a run every task is attempted; an attempt goes through its windows
\* until one holds the task clear of the placed tasks; each window refused for
\* overlap adds one warning per placed task overlapped, logged too, and leaves
\* the Schedule as it was; after the call has_warnings() is true iff some
\* attempt of that run was refused for overlap
C13_RefusedAndRecorded ==
    /\ \A c \in LatestRun :
          /\ Len(c.run.attempts) = Len(tasks)
          /\ c.run.warnings =
                Concat([i \in 1..Len(c.run.attempts) |->
                            AttemptWarnings(c.run.attempts[i])])
          /\ Len(SelectSeq(c.run.decision_log, LAMBDA e : e.kind = "->"))
                = Len(c.run.warnings)
          /\ \A i \in 1..Len(c.run.attempts) :
                LET a == c.run.attempts[i]
                IN /\ a.new_warnings = Len(AttemptWarnings(a))
                   /\ a.scheduled =>
                         /\ a.tried >= 1
                         /\ Holds(TriedWindows(a)[a.tried], a.task.duration_minutes)
                         /\ Hit(a, TriedWindows(a)[a.tried]) = <<>>
                   /\ (~a.scheduled /\ a.task.dependencies = <<>>) =>
                         a.tried = Len(a.task.preferred_windows) + Len(a.pool_before)
                   /\ i < Len(c.run.attempts) =>
                         IF a.scheduled
                         THEN /\ Len(c.run.attempts[i + 1].placed_before)
                                    = Len(a.placed_before) + 1
                              /\ Range(a.placed_before)
                                    \subseteq Range(c.run.attempts[i + 1].placed_before)
                         ELSE c.run.attempts[i + 1].placed_before = a.placed_before
    /\ runs # <<>> =>
          (has_warnings(warnings) <=>
              \E i \in 1..Len(Last(runs).run.attempts) :
                  AttemptWarnings(Last(runs).run.attempts[i]) # <<>>)

\* a candidate overlapped two placed tasks at once and was refused
C13_Witness ==
    /\ runs # <<>>
    /\ has_warnings(warnings)
    /\ \E i \in 1..Len(Last(runs).run.attempts) :
          \E w \in Range(RefusedWindows(Last(runs).run.attempts[i])) :
              Len(Hit(Last(runs).run.attempts[i], w)) = 2

\* the lines one attempt writes to the log: the dependency it lacks, or its
\* refusals, and then its outcome
AttemptLines(a) ==
    LET unmet == {k \in 1..Len(a.task.dependencies) :
                    a.task.dependencies[k] \notin Ids(a.placed_before)}
    IN (IF unmet # {}
        THEN <<[kind |-> "dependency", title |-> a.task.title,
                dep |-> a.task.dependencies[SetMin(unmet)]]>>
        ELSE [k \in 1..Len(AttemptWarnings(a)) |->
                [kind |-> "->", warning |-> AttemptWarnings(a)[k]]])
       \o (IF a.scheduled
           THEN <<[kind |-> "[SCHEDULED]", title |-> a.task.title,
                   score |-> a.score, priority |-> a.task.priority]>>
           ELSE <<[kind |-> "[SKIPPED]", title |-> a.task.title,
                   score |-> a.score]>>)

\* the log of one call: three opening lines, then the lines of its attempts
CallLog(c) ==
    <<[kind |-> "Scheduling", n |-> Len(tasks)],
      [kind |-> "Required",
       n |-> Cardinality({i \in 1..Len(tasks) : tasks[i].required}),
       optional |-> Cardinality({i \in 1..Len(tasks) : ~tasks[i].required})],
      [kind |-> "Available windows", n |-> Len(WindowsOf(c)),
       total |-> SumSeq([k \in 1..Len(WindowsOf(c)) |->
                            WindowsOf(c)[k].end - WindowsOf(c)[k].start])]>>
    \o Concat([i \in 1..Len(c.run.attempts) |-> AttemptLines(c.run.attempts[i])])

\* C14: every call, whatever calls came before it on the Scheduler, returns a
\* Schedule whose explanation is that call's log lines and nothing else, and
\* leaves in get_warnings() the warnings of that call and nothing else
C14_PerRun ==
    /\ \A c \in LatestRun :
          /\ c.run.schedule.explanation = CallLog(c)
          /\ c.run.warnings =
                Concat([k \in 1..Len(c.run.attempts) |->
                            AttemptWarnings(c.run.attempts[k])])
    /\ runs # <<>> =>
          /\ get_warnings(warnings) = Last(runs).run.warnings
          /\ decision_log = Last(runs).run.schedule.explanation

\* a call that warned was followed by a call, with other windows, that did not
C14_Witness ==
    /\ Len(runs) = 2
    /\ runs[1].run.warnings # <<>>
    /\ get_warnings(warnings) = <<>>
    /\ Len(runs[2].run.schedule.explanation) < Len(runs[1].run.schedule.explanation)

\* C15: explain_decision() gives the fixed text iff no generate_schedule call
\* has completed; after calls it gives the log of the most recent call, which
\* is the explanation of the Schedule that call returned
C15_ExplainLatest ==
    /\ (explain_decision(last_schedule) = NoScheduleYet) <=> (runs = <<>>)
    /\ runs # <<>> =>
          /\ explain_decision(last_schedule) = CallLog(Last(runs))
          /\ explain_decision(last_schedule) = Last(runs).run.schedule.explanation

\* two calls returned different explanations, and the second one is shown
C15_Witness ==
    /\ Len(runs) = 2
    /\ runs[1].run.schedule.explanation # runs[2].run.schedule.explanation
    /\ explain_decision(last_schedule) = runs[2].run.schedule.explanation

\* position of a task in pet.tasks
PosIn(t) == CHOOSE i \in 1..Len(tasks) : tasks[i] = t

\* C16: of two tasks of the same group, required or optional, the one
\* attempted first has no lower score, computed by score_task, and at equal
\* scores stands first in pet.tasks
C16_OrderInGroup ==
    \A c \in LatestRun :
        /\ \A i \in 1..Len(c.run.attempts) :
              c.run.attempts[i].score = score_task(c.run.attempts[i].task, now)
        /\ \A i, j \in 1..Len(c.run.attempts) :
              (i < j /\ c.run.attempts[i].task.required
                            = c.run.attempts[j].task.required) =>
                  /\ ~ScoreLess(c.run.attempts[i].score, c.run.attempts[j].score)
                  /\ ScoreEq(c.run.attempts[i].score, c.run.attempts[j].score) =>
                        PosIn(c.run.attempts[i].task) < PosIn(c.run.attempts[j].task)

\* three tasks of one group: the last of pet.tasks, of the highest score, was
\* attempted first, then the two others, of equal score, in list order
C16_Witness ==
    \E c \in Runs :
        /\ Len(tasks) = 3
        /\ tasks[1].required = tasks[2].required
        /\ tasks[2].required = tasks[3].required
        /\ c.run.attempts[1].task = tasks[3]
        /\ c.run.attempts[2].task = tasks[1]
        /\ c.run.attempts[3].task = tasks[2]
        /\ ScoreEq(c.run.attempts[2].score, c.run.attempts[3].score)
        /\ ScoreLess(c.run.attempts[2].score, c.run.attempts[1].score)

\* the last call on the pet or a task was this one
Called(name) == IF returned = None THEN FALSE ELSE The(returned).call = name

PriorityPoints(p) ==
    CASE p = "critical" -> 4 [] p = "high" -> 3 [] p = "medium" -> 2 [] p = "low" -> 1

HoursSince(t, clock) == clock - The(t.last_done)

ThresholdHours(rec) ==
    CASE rec = "daily" -> 24 [] rec = "weekly" -> 7 * 24
      [] rec = "biweekly" -> 14 * 24 [] rec = "monthly" -> 30 * 24

\* done before, and more than the recurrence's threshold ago
OverdueWithHistory(t, clock) ==
    /\ t.last_done # None
    /\ t.recurrence \in Recurring
    /\ HoursSince(t, clock) > ThresholdHours(t.recurrence)

\* the terms of the sum that are half points, in halves: priority, required,
\* never done and overdue, recency
ListedHalves(t, clock) ==
    2 * PriorityPoints(t.priority)
    + (IF t.required THEN 4 ELSE 0)
    + (IF t.last_done = None /\ t.required THEN 2 ELSE 0)
    + (IF t.last_done = None THEN 0
       ELSE IF HoursSince(t, clock) < 6 THEN -2
       ELSE IF HoursSince(t, clock) < 12 THEN -1
       ELSE 0)

\* lengths of the preferred windows at least as long as the task
FitLengths(t) ==
    {t.preferred_windows[i].end - t.preferred_windows[i].start :
        i \in {j \in 1..Len(t.preferred_windows) :
                 t.preferred_windows[j].end - t.preferred_windows[j].start
                     >= t.duration_minutes}}

\* halves/2 + 0.5 * duration / (smallest fitting window), as a fraction
PlusFit(halves, t) ==
    IF FitLengths(t) = {}
    THEN [num |-> halves, den |-> 2]
    ELSE [num |-> halves * SetMin(FitLengths(t)) + t.duration_minutes,
          den |-> 2 * SetMin(FitLengths(t))]

\* a task that differs from t in a higher priority only scores strictly higher
PriorityRaises(t, clock, value) ==
    \A p \in Priorities :
        PriorityPoints(p) > PriorityPoints(t.priority) =>
            ScoreLess(value, score_task([t EXCEPT !.priority = p], clock))

\* C17 as stated: score_task(t) is the sum of the priority base, +2 if
\* required, +1 if overdue and never done, the recency penalty and the fit
\* bonus; a higher priority alone gives a strictly higher score
C17_ScoreIsListedSum ==
    Called("score_task") =>
        /\ ScoreEq(The(returned).value,
                   PlusFit(ListedHalves(The(returned).task, The(returned).clock),
                           The(returned).task))
        /\ PriorityRaises(The(returned).task, The(returned).clock,
                          The(returned).value)

\* C17, amended: for a task that is not overdue with a completion history
\* score_task(t) is that sum; for one that is, the score is that sum plus an
\* overdue bonus of 0.5 to 3.0 points; a higher priority alone gives a strictly
\* higher score
C17_ScoreIsSum ==
    Called("score_task") =>
        LET t == The(returned).task
            clock == The(returned).clock
        IN /\ ~OverdueWithHistory(t, clock) =>
                 ScoreEq(The(returned).value, PlusFit(ListedHalves(t, clock), t))
           /\ OverdueWithHistory(t, clock) =>
                 \E h \in 1..6 :
                     ScoreEq(The(returned).value,
                             PlusFit(ListedHalves(t, clock) + h, t))
           /\ PriorityRaises(t, clock, The(returned).value)

\* score_task was called on a required task done 5 hours before, the second
\* of whose two preferred windows is the smallest that fits it
C17_Witness ==
    /\ Called("score_task")
    /\ The(returned).task.required
    /\ The(returned).task.last_done # None
    /\ The(returned).clock - The(The(returned).task.last_done) = 5
    /\ Len(The(returned).task.preferred_windows) = 2
    /\ FitLengths(The(returned).task) # {}
    /\ SetMin(FitLengths(The(returned).task))
          = duration_minutes(The(returned).task.preferred_windows[2])

\* C18: for a task overdue with a completion history score_task adds 0.5 per
\* whole day elapsed beyond the recurrence threshold, at most 3.0, to the other
\* terms of the score; for a task that is not overdue it adds no overdue bonus
C18_HalfPointPerDayLate ==
    Called("score_task") =>
        LET t == The(returned).task
            clock == The(returned).clock
            late == (HoursSince(t, clock) - ThresholdHours(t.recurrence)) \div 24
        IN ScoreEq(The(returned).value,
                   PlusFit(ListedHalves(t, clock)
                               + (IF OverdueWithHistory(t, clock)
                                  THEN (IF late < 6 THEN late ELSE 6) ELSE 0),
                           t))

\* C19: is_overdue() of a task never done is its required flag; of a task done
\* before it is true iff the recurrence is DAILY, WEEKLY, BIWEEKLY or MONTHLY
\* and more than 24 hours, 7, 14 or 30 days have passed since last_done; it is
\* false for an AS_NEEDED task done before, whatever time has passed
C19_Overdue ==
    Called("is_overdue") =>
        LET t == The(returned).task
            clock == The(returned).clock
        IN /\ t.last_done = None => (The(returned).value <=> t.required)
           /\ t.last_done # None =>
                 (The(returned).value <=>
                     \/ t.recurrence = "daily" /\ clock - The(t.last_done) > 24
                     \/ t.recurrence = "weekly" /\ clock - The(t.last_done) > 7 * 24
                     \/ t.recurrence = "biweekly" /\ clock - The(t.last_done) > 14 * 24
                     \/ t.recurrence = "monthly" /\ clock - The(t.last_done) > 30 * 24)
           /\ (t.last_done # None /\ t.recurrence = "as_needed") =>
                 ~The(returned).value

\* is_overdue() was asked of a weekly task done exactly 7 days before, and it
\* is not overdue
C19_Witness ==
    /\ Called("is_overdue")
    /\ The(returned).task.recurrence = "weekly"
    /\ The(returned).task.last_done # None
    /\ The(returned).clock - The(The(returned).task.last_done) = 7 * 24
    /\ ~The(returned).value

\* C20: mark_task_complete(id) on a pet that has a task with this id sets the
\* last_done of the first such task to the time of the call and leaves the
\* tasks the pet had otherwise unchanged; for an AS_NEEDED task it returns
\* None and adds no task; for a recurring one it appends one task, which it
\* returns, with an id no task had, last_done None, and the title, duration,
\* priority, preferred windows, required flag, recurrence and dependencies of
\* the task marked
C20_MarkComplete ==
    (Called("mark_task_complete") /\ \E i \in 1..Len(The(returned).before) :
            The(returned).before[i].id = The(returned).task_id) =>
        LET before == The(returned).before
            i == SetMin({k \in 1..Len(before) :
                            before[k].id = The(returned).task_id})
        IN /\ ~The(returned).raised
           /\ Len(tasks) >= Len(before)
           /\ tasks[i] = [before[i] EXCEPT !.last_done = Some(The(returned).clock)]
           /\ \A k \in 1..Len(before) : k # i => tasks[k] = before[k]
           /\ before[i].recurrence = "as_needed" =>
                 /\ The(returned).value = None
                 /\ Len(tasks) = Len(before)
           /\ before[i].recurrence \in {"daily", "weekly", "biweekly", "monthly"} =>
                 /\ Len(tasks) = Len(before) + 1
                 /\ The(returned).value = Some(tasks[Len(tasks)])
                 /\ \A k \in 1..Len(before) : before[k].id # tasks[Len(tasks)].id
                 /\ tasks[Len(tasks)].last_done = None
                 /\ tasks[Len(tasks)].title = before[i].title
                 /\ tasks[Len(tasks)].duration_minutes = before[i].duration_minutes
                 /\ tasks[Len(tasks)].priority = before[i].priority
                 /\ tasks[Len(tasks)].preferred_windows = before[i].preferred_windows
                 /\ tasks[Len(tasks)].required = before[i].required
                 /\ tasks[Len(tasks)].recurrence = before[i].recurrence
                 /\ tasks[Len(tasks)].dependencies = before[i].dependencies

\* a weekly task with a preferred window and a dependency was marked complete
\* on a pet that already had a task with the id of its first next occurrence
C20_Witness ==
    /\ Called("mark_task_complete")
    /\ The(returned).task_id = "t1"
    /\ Len(The(returned).before) = 2
    /\ The(returned).before[1].recurrence = "weekly"
    /\ The(returned).before[1].preferred_windows # <<>>
    /\ The(returned).before[1].dependencies # <<>>
    /\ The(returned).before[2].id = NextId("t1", 1)
    /\ Len(tasks) = 3
    /\ tasks[3].id = NextId("t1", 2)

\* the ids of the tasks of a list
TaskIds(ts) == {ts[i].id : i \in 1..Len(ts)}

\* id is base itself or base followed by "_next_" and a number
CutsTo(id, base) ==
    \/ id = base
    \/ \E k \in 1..(MaxPetTasks + 1) : id = base \o "_next_" \o ToString(k)

\* C21: the task that mark_task_complete(X) returns has the id B_next_n, B
\* being X cut before its first "_next_" and n the least positive integer for
\* which no task the pet had has that id; the ids of the pet's tasks stay
\* pairwise distinct, so no spawned id is given twice; completing t1 gives
\* t1_next_1 and completing t1_next_1 then gives t1_next_2
C21_SpawnedIds ==
    /\ \A i, j \in 1..Len(tasks) : i # j => tasks[i].id # tasks[j].id
    /\ (Called("mark_task_complete") /\ The(returned).value # None) =>
          LET before == The(returned).before
              new_id == The(The(returned).value).id
          IN /\ \E b \in {"t1", "t2"} :
                   /\ CutsTo(The(returned).task_id, b)
                   /\ \E n \in 1..(Len(before) + 1) :
                         /\ new_id = b \o "_next_" \o ToString(n)
                         /\ new_id \notin TaskIds(before)
                         /\ \A m \in 1..(n - 1) :
                               b \o "_next_" \o ToString(m) \in TaskIds(before)
             /\ (The(returned).task_id = "t1" /\ TaskIds(before) = {"t1"}) =>
                   new_id = "t1_next_1"
             /\ (The(returned).task_id = "t1_next_1"
                    /\ TaskIds(before) = {"t1", "t1_next_1"}) =>
                   new_id = "t1_next_2"

\* t1 was completed, and then the task that spawned was completed in turn
C21_Witness ==
    /\ Called("mark_task_complete")
    /\ The(returned).task_id = "t1_next_1"
    /\ Len(The(returned).before) = 2
    /\ The(returned).before[1].id = "t1"
    /\ The(returned).before[1].last_done = Some(StartOfClock)
    /\ The(returned).before[2].title = The(returned).before[1].title
    /\ The(returned).value # None
    /\ The(The(returned).value).id = "t1_next_2"
    /\ TaskIds(tasks) = {"t1", "t1_next_1", "t1_next_2"}

\* C22: mark_task_complete with an id that no task of the pet has raises, and
\* leaves pet.tasks, with the last_done of every task, as it was; with an id
\* that some task has it does not raise
C22_NotFoundRaises ==
    Called("mark_task_complete") =>
        /\ The(returned).raised <=>
              The(returned).task_id \notin TaskIds(The(returned).before)
        /\ The(returned).raised =>
              /\ tasks = The(returned).before
              /\ \A i \in 1..Len(tasks) :
                    tasks[i].last_done = The(returned).before[i].last_done
              /\ The(returned).value = None

\* an id that no task has was given on a pet of two tasks, one of them done
C22_Witness ==
    /\ Called("mark_task_complete")
    /\ The(returned).task_id = "zz"
    /\ The(returned).raised
    /\ Len(tasks) = 2
    /\ tasks[1].last_done # None
    /\ tasks[2].last_done = None

\* C23: add_task(t) raises iff t's id is empty or a task of the pet has it,
\* and then pet.tasks and t.pet_id are as they were; otherwise pet.tasks is the
\* list it was with t appended, and t.pet_id is the pet's id
C23_AddTask ==
    Called("add_task") =>
        LET given == The(returned).given
            before == The(returned).before
        IN /\ The(returned).raised <=>
                 (given.id = "" \/ given.id \in TaskIds(before))
           /\ The(returned).raised =>
                 /\ tasks = before
                 /\ The(returned).task = given
           /\ ~The(returned).raised =>
                 /\ Len(tasks) = Len(before) + 1
                 /\ SubSeq(tasks, 1, Len(before)) = before
                 /\ tasks[Len(tasks)] = The(returned).task
                 /\ The(returned).task = [given EXCEPT !.pet_id = Some(pets[ThePet].id)]

\* a task made for another pet was added and has changed pets; then a task
\* with its id, made for that other pet too, was refused and has not
C23_Witness ==
    /\ Called("add_task")
    /\ The(returned).raised
    /\ The(returned).given.id = "t3"
    /\ The(returned).task.pet_id = Some("p2")
    /\ tasks # <<>>
    /\ tasks[Len(tasks)].id = "t3"
    /\ tasks[Len(tasks)].title = "bath"
    /\ tasks[Len(tasks)].pet_id = Some(pets[ThePet].id)

\* how often the Pet object p is in a list of Pets
CountOf(list, p) == Cardinality({i \in 1..Len(list) : list[i] = p})

\* C24: after an add_pet(pet) call the pet is exactly once in owner.pets and
\* pet.owner_id is the owner's id
C24_AddPetSetsOwner ==
    Called("add_pet") =>
        /\ CountOf(owners[The(returned).owner].pets, The(returned).pet) = 1
        /\ pets[The(returned).pet].owner_id
              = Some(owners[The(returned).owner].id)

\* a list of placements is in ascending order of start_time
Ascending(s) == \A i, j \in 1..Len(s) : i < j => s[i].start_time <= s[j].start_time

\* list s is list b with x put in at some place
WithOneMore(s, b, x) ==
    \E k \in 1..Len(s) :
        /\ s[k] = x
        /\ SubSeq(s, 1, k - 1) \o SubSeq(s, k + 1, Len(s)) = b

\* C25: add_scheduled_task returns False, and leaves the Schedule as it was,
\* when the candidate shares time with an entry; otherwise it returns True,
\* puts the candidate in and adds the task's duration to
\* total_minutes_scheduled. After add_scheduled_task calls on a Schedule, and
\* in a Schedule that generate_schedule returns, scheduled_tasks is in
\* ascending order of start_time
C25_AddScheduledTask ==
    /\ Called("add_scheduled_task") =>
          LET st == The(returned).st
              before == The(returned).before
          IN /\ The(returned).value <=>
                   ~\E i \in 1..Len(before.scheduled_tasks) :
                        ShareTime(st, before.scheduled_tasks[i])
             /\ ~The(returned).value => The(manual) = before
             /\ The(returned).value =>
                   /\ WithOneMore(The(manual).scheduled_tasks,
                                  before.scheduled_tasks, st)
                   /\ The(manual).total_minutes_scheduled
                         = before.total_minutes_scheduled + st.task.duration_minutes
                   /\ The(manual).unscheduled_tasks = before.unscheduled_tasks
                   /\ The(manual).total_minutes_available
                         = before.total_minutes_available
    /\ manual # None => Ascending(The(manual).scheduled_tasks)
    /\ \A c \in LatestRun : Ascending(c.run.schedule.scheduled_tasks)

\* a candidate was put in before the two entries a Schedule had
C25_Witness ==
    /\ Called("add_scheduled_task")
    /\ The(returned).value
    /\ Len(The(returned).before.scheduled_tasks) = 2
    /\ The(manual).scheduled_tasks[1] = The(returned).st
    /\ The(manual).total_minutes_scheduled = 4

\* the Schedule of the latest call and the caller's own
LatestSchedules ==
    {c.run.schedule : c \in LatestRun} \cup (IF manual = None THEN {} ELSE {The(manual)})

\* C26: get_utilization_rate() is 0 when total_minutes_available is 0, also
\* with minutes scheduled, and else total_minutes_scheduled /
\* total_minutes_available * 100; the total_minutes_available of a returned
\* Schedule is the sum of the lengths of the windows the call ran with
C26_Utilization ==
    /\ \A sch \in LatestSchedules :
          /\ get_utilization_rate(sch).den > 0
          /\ sch.total_minutes_available = 0 => get_utilization_rate(sch).num = 0
          /\ sch.total_minutes_available # 0 =>
                get_utilization_rate(sch).num * sch.total_minutes_available
                    = sch.total_minutes_scheduled * 100 * get_utilization_rate(sch).den
    /\ \A c \in LatestRun :
          c.run.schedule.total_minutes_available
              = SumSeq([k \in 1..Len(WindowsOf(c)) |->
                            WindowsOf(c)[k].end - WindowsOf(c)[k].start])

\* one call on an owner without availability placed a task in its preferred
\* window, so minutes are scheduled and none available; another call on the
\* same owner, with a window passed, has a rate of 50 percent or more
C26_Witness ==
    \E c1, c2 \in Runs :
        /\ c1.run.schedule.total_minutes_available = 0
        /\ c1.run.schedule.total_minutes_scheduled > 0
        /\ get_utilization_rate(c1.run.schedule).num = 0
        /\ c2.run.schedule.total_minutes_available = MaxTime
        /\ 2 * c2.run.schedule.total_minutes_scheduled >= MaxTime

\* C27: a.overlaps(b) equals b.overlaps(a); windows that touch at one
\* boundary point do not overlap; windows that share an interval of positive
\* length do
C27_OverlapsSymmetric ==
    Called("overlaps") =>
        LET a == The(returned).a
            b == The(returned).b
            from == IF a.start > b.start THEN a.start ELSE b.start
            to == IF a.end < b.end THEN a.end ELSE b.end
        IN /\ The(returned).value = The(returned).reverse
           /\ (a.end = b.start \/ b.end = a.start) => ~The(returned).value
           /\ from < to => The(returned).value
           /\ The(returned).value => from < to

\* overlaps was asked of a window and the window that starts where it ends
C27_Witness ==
    /\ Called("overlaps")
    /\ The(returned).a.end = The(returned).b.start
    /\ ~The(returned).value
    /\ ~The(returned).reverse

\* what C28 says of construction, of fits_task and of the windows of the pool
WindowsValid ==
    /\ Called("TimeWindow") =>
          /\ The(returned).raised <=> The(returned).start >= The(returned).end
          /\ The(returned).raised <=> The(returned).value = None
          /\ ~The(returned).raised =>
                /\ The(The(returned).value).start = The(returned).start
                /\ The(The(returned).value).end = The(returned).end
                /\ The(returned).start < The(returned).end
    /\ Called("fits_task") =>
          (The(returned).value <=>
              The(returned).d <= cached_duration_minutes(The(returned).window))
    /\ \A c \in LatestRun :
          \A i \in 1..Len(c.run.attempts) :
              \A w \in Range(c.run.attempts[i].pool_after) : w.start < w.end

\* C28 as stated: construction with start >= end fails, so every window, and
\* every fragment put into the pool, has start < end; duration_minutes() is
\* the time from start to end in minutes; fits_task(d) iff d <=
\* duration_minutes()
C28_DurationIsLength ==
    /\ WindowsValid
    /\ Called("duration_minutes") =>
          The(returned).value * SecondsPerMinute
              = The(returned).window.end - The(returned).window.start

\* C28, amended: the same, but duration_minutes() is the number of whole
\* minutes from start to end, the rest dropped; it is the time from start to
\* end in minutes for a window that starts and ends on whole minutes, and
\* then what duration_minutes gives for the window counted in minutes
C28_DurationIsWholeMinutes ==
    /\ WindowsValid
    /\ Called("duration_minutes") =>
          LET w == The(returned).window
              v == The(returned).value
          IN /\ v * SecondsPerMinute <= w.end - w.start
             /\ w.end - w.start < (v + 1) * SecondsPerMinute
             /\ (w.start % SecondsPerMinute = 0 /\ w.end % SecondsPerMinute = 0) =>
                   /\ v * SecondsPerMinute = w.end - w.start
                   /\ v = duration_minutes(Window(w.start \div SecondsPerMinute,
                                                  w.end \div SecondsPerMinute))

\* duration_minutes() of a window of a minute and a half gave 1, after a call
\* that put a task in mid-window and the two leftovers into the pool
C28_Witness ==
    /\ Called("duration_minutes")
    /\ The(returned).window.end - The(returned).window.start
          = SecondsPerMinute + SecondsPerMinute \div 2
    /\ The(returned).value = 1
    /\ \E c \in Runs :
          \E i \in 1..Len(c.run.attempts) :
              /\ c.run.attempts[i].scheduled
              /\ Len(c.run.attempts[i].pool_after)
                    = Len(c.run.attempts[i].pool_before) + 1

\* C29: Task(...) raises iff the id or the title is empty or the duration is
\* not in 1..1440, and then there is no Task; a Task that exists has a
\* duration in 1..1440
C29_TaskValidation ==
    /\ Called("Task") =>
          /\ The(returned).raised <=>
                \/ The(returned).id = ""
                \/ The(returned).title = ""
                \/ The(returned).d <= 0
                \/ The(returned).d > 1440
          /\ The(returned).raised <=> The(returned).value = None
          /\ ~The(returned).raised =>
                /\ The(The(returned).value).id = The(returned).id
                /\ The(The(returned).value).title = The(returned).title
                /\ The(The(returned).value).duration_minutes = The(returned).d
                /\ The(returned).d \in 1..1440
    /\ \A i \in 1..Len(tasks) : tasks[i].duration_minutes \in 1..1440

\* a Task of 1441 minutes, with an id and a title, was refused
C29_Witness ==
    /\ Called("Task")
    /\ The(returned).d = 1441
    /\ The(returned).id # "" /\ The(returned).title # ""
    /\ The(returned).raised

\* the windows of an attempt in the order of the rule: the task's preferred
\* windows, then the pool as the attempt found it
RuleWindows(a) == a.task.preferred_windows \o a.pool_before

\* the places in that order of the windows that are as long as the task and
\* where the task, put at the window's start, shares no time with a placed task
Usable(a) ==
    {k \in 1..Len(RuleWindows(a)) :
        /\ RuleWindows(a)[k].end - RuleWindows(a)[k].start >= a.task.duration_minutes
        /\ \A e \in Range(a.placed_before) :
              ~ShareTime(AtStart(RuleWindows(a)[k], a.task.duration_minutes), e)}

\* C30: a task whose dependencies are placed is scheduled iff one of its
\* preferred windows or of the pool windows is usable, and then it is in the
\* returned Schedule at the start of the first usable window, preferred
\* windows first in their order, then the pool in its order; so it starts at
\* the start of such a window and ends by its end
C30_FirstFit ==
    \A c \in LatestRun :
        \A i \in 1..Len(c.run.attempts) :
            LET a == c.run.attempts[i]
                met == Range(a.task.dependencies) \subseteq Ids(a.placed_before)
            IN /\ a.scheduled <=> (met /\ Usable(a) # {})
               /\ a.scheduled =>
                     LET w == RuleWindows(a)[SetMin(Usable(a))]
                     IN /\ <<a.task.id, w.start, w.start + a.task.duration_minutes>>
                              \in Placements(c.run.schedule)
                        /\ w.start + a.task.duration_minutes <= w.end
                        /\ a.tried = SetMin(Usable(a))

\* a task went to its preferred window though a pool window that starts
\* earlier was free, and a task whose preferred window is too short for it
\* went to the first window of the pool
C30_Witness ==
    \E c \in Runs :
        \E i, j \in 1..Len(c.run.attempts) :
            /\ c.run.attempts[i].scheduled
            /\ c.run.attempts[i].task.preferred_windows # <<>>
            /\ SetMin(Usable(c.run.attempts[i])) = 1
            /\ \E k \in Usable(c.run.attempts[i]) :
                  /\ k > 1
                  /\ RuleWindows(c.run.attempts[i])[k].start
                        < c.run.attempts[i].task.preferred_windows[1].start
            /\ c.run.attempts[j].scheduled
            /\ SetMin(Usable(c.run.attempts[j])) = 2
            /\ c.run.attempts[j].task.preferred_windows # <<>>
            /\ c.run.attempts[j].task.preferred_windows[1].end
                    - c.run.attempts[j].task.preferred_windows[1].start
                  < c.run.attempts[j].task.duration_minutes

\* where a run put the task with this id: <<start, end>>
PlacedAt(c, id) ==
    LET st == CHOOSE x \in Range(c.run.schedule.scheduled_tasks) : x.task.id = id
    IN <<st.start_time, st.end_time>>

\* what is left of window w around [s, e]: the part before, the part after
Leftovers(w, s, e) ==
    (IF s > w.start THEN <<[start |-> w.start, end |-> s]>> ELSE <<>>)
    \o (IF e < w.end THEN <<[start |-> e, end |-> w.end]>> ELSE <<>>)

\* C31: after every placement of a run, wherever the task stands among the
\* placed ones, the first pool window that contained the task's start time
\* has given way, at its place in the pool, to what is left of it before and
\* after the task; the other pool windows are as they were, in their order
C31_FragmentsEveryPlacement ==
    \A c \in LatestRun :
        \A i \in 1..Len(c.run.attempts) :
            LET a == c.run.attempts[i]
                s == PlacedAt(c, a.task.id)[1]
                e == PlacedAt(c, a.task.id)[2]
                holding == {k \in 1..Len(a.pool_before) :
                               a.pool_before[k].start <= s /\ s <= a.pool_before[k].end}
            IN (a.scheduled /\ holding # {}) =>
                  a.pool_after =
                      SubSeq(a.pool_before, 1, SetMin(holding) - 1)
                      \o Leftovers(a.pool_before[SetMin(holding)], s, e)
                      \o SubSeq(a.pool_before, SetMin(holding) + 1, Len(a.pool_before))

\* the step is a mark_task_complete call that returned a task
Spawns ==
    /\ returned' # None
    /\ The(returned').call = "mark_task_complete"
    /\ The(returned').value # None

\* C32 as stated: mark_task_complete never returns a task with an id that an
\* earlier mark_task_complete call on the pet returned a task with
C32_NeverReused ==
    [][Spawns => The(The(returned').value).id \notin spawned]_vars

\* C32: the task mark_task_complete returns never has the id of a task the
\* pet holds when the call is made; so an id an earlier call returned comes
\* back only when the task that had it was removed from the pet since
C32_ReusedOnlyAfterRemoval ==
    [][Spawns => The(The(returned').value).id \notin TaskIds(tasks)]_vars

\* t1 was completed before, the occurrence it spawned is no longer with the
\* pet, and completing t1 again has returned a task with the same id
C32_Witness ==
    /\ Called("mark_task_complete")
    /\ The(returned).task_id = "t1"
    /\ \E i \in 1..Len(The(returned).before) :
          /\ The(returned).before[i].id = "t1"
          /\ The(returned).before[i].last_done # None
    /\ NextId("t1", 1) \notin TaskIds(The(returned).before)
    /\ The(returned).value # None
    /\ The(The(returned).value).id = NextId("t1", 1)

\* C37: from a pet with no tasks, whatever add_task, remove_task and
\* mark_task_complete calls are made, failed ones among them, no two tasks of
\* pet.tasks have the same id
C37_IdsStayUnique ==
    \A i, j \in 1..Len(tasks) : i # j => tasks[i].id # tasks[j].id

\* the pet holds t1 and an occurrence of it that mark_task_complete made, and
\* add_task with a task of an id the pet has was just refused
C37_Witness ==
    /\ Called("add_task")
    /\ The(returned).raised
    /\ The(returned).given.id \in TaskIds(tasks)
    /\ spawned \cap TaskIds(tasks) # {}
    /\ Len(tasks) >= 2

\* C40: after any add_pet and remove_pet calls on the owners, every pet in an
\* owner's pets list has that owner's id for owner_id
C40_BackReferences ==
    \A o \in OwnerRefs :
        \A i \in 1..Len(owners[o].pets) :
            pets[owners[o].pets[i]].owner_id = Some(owners[o].id)

\* the step is a generate_schedule call returning
Generates == Len(runs') = Len(runs) + 1

C35_ExactAndSameDay ==
    \A c \in LatestRun :
        \A i \in 1..Len(c.run.schedule.scheduled_tasks) :
            LET st == c.run.schedule.scheduled_tasks[i]
            IN /\ st.start_time < st.end_time
               /\ st.end_time - st.start_time = st.task.duration_minutes
               /\ 0 <= st.start_time
               /\ st.end_time <= MaxTime

\* a run placed a task in a window longer than the task, and a task that ends
\* with the last time of the day
C35_Witness ==
    \E c \in LatestRun :
        /\ \E i \in 1..Len(c.run.attempts) :
              /\ c.run.attempts[i].scheduled
              /\ c.run.attempts[i].tried = 1
              /\ c.run.attempts[i].task.preferred_windows = <<>>
              /\ duration_minutes(c.run.attempts[i].pool_before[1])
                    > c.run.attempts[i].task.duration_minutes
        /\ \E i \in 1..Len(c.run.schedule.scheduled_tasks) :
              c.run.schedule.scheduled_tasks[i].end_time = MaxTime

\* the ids a task with this id depends on, directly or through others, in at
\* most n steps
RECURSIVE Needs(_, _, _)
Needs(ts, id, n) ==
    IF n = 0 THEN {}
    ELSE LET direct == UNION {Range(ts[i].dependencies) :
                                 i \in {k \in 1..Len(ts) : ts[k].id = id}}
         IN direct \cup UNION {Needs(ts, d, n - 1) : d \in direct}

\* attempt i of a run is of a task with a dependency that cannot be placed by
\* then: its own id, an id of no task of the pet, or the id of a task that is
\* attempted later
CannotBeMet(c, i) ==
    \E k \in 1..Len(c.run.attempts[i].task.dependencies) :
        LET d == c.run.attempts[i].task.dependencies[k]
        IN \/ d = c.run.attempts[i].task.id
           \/ d \notin TaskIds(tasks)
           \/ \E j \in (i + 1)..Len(c.run.attempts) : c.run.attempts[j].task.id = d

\* C36: a task with a dependency that is its own id, the id of no task of the
\* pet, or the id of a task attempted later, is never placed and is listed in
\* unscheduled_tasks, whatever free time remains; so is every task of a
\* dependency cycle
C36_UnmeetableUnscheduled ==
    \A c \in LatestRun :
        \A i \in 1..Len(c.run.attempts) :
            LET t == c.run.attempts[i].task
            IN (CannotBeMet(c, i) \/ t.id \in Needs(tasks, t.id, Len(tasks))) =>
                  /\ ~c.run.attempts[i].scheduled
                  /\ t.id \notin Ids(c.run.schedule.scheduled_tasks)
                  /\ t \in Range(c.run.schedule.unscheduled_tasks)

\* a required task of low priority depending on an optional critical one was
\* left unplaced with the whole day free but for the other task
C36_Witness ==
    \E c \in LatestRun :
        /\ Len(c.run.attempts) = 2
        /\ c.run.attempts[1].task.required
        /\ c.run.attempts[1].task.priority = "low"
        /\ c.run.attempts[1].task.dependencies = <<c.run.attempts[2].task.id>>
        /\ ~c.run.attempts[1].scheduled
        /\ c.run.attempts[1].pool_before = <<Window(0, MaxTime)>>
        /\ ~c.run.attempts[2].task.required
        /\ c.run.attempts[2].task.priority = "critical"
        /\ c.run.attempts[2].scheduled

\* three tasks that depend on each other in a circle were all left unplaced
C36_CycleOfThree ==
    \E c \in LatestRun :
        /\ Len(c.run.attempts) = 3
        /\ \A i \in 1..3 : c.run.attempts[i].task.id \in Needs(tasks, c.run.attempts[i].task.id, 3)
        /\ c.run.attempts[1].task.id \notin Needs(tasks, c.run.attempts[1].task.id, 2)
        /\ c.run.schedule.scheduled_tasks = <<>>
        /\ Len(c.run.schedule.unscheduled_tasks) = 3

\* C38: in every Schedule that generate_schedule returns the minutes scheduled
\* do not exceed the minutes available, and get_utilization_rate() lies
\* between 0 and 100
C38_ScheduledWithinAvailable ==
    \A c \in LatestRun :
        /\ c.run.schedule.total_minutes_scheduled
              <= c.run.schedule.total_minutes_available
        /\ 0 <= get_utilization_rate(c.run.schedule).num
        /\ get_utilization_rate(c.run.schedule).num
              <= 100 * get_utilization_rate(c.run.schedule).den

\* C39: with no preferred window on any task and availability windows that are
\* pairwise disjoint, a run tries no placement that overlaps a placed task:
\* get_warnings() is empty after the run
C39_NoConflictFromPool ==
    \A c \in LatestRun :
        (/\ \A i \in 1..Len(tasks) : tasks[i].preferred_windows = <<>>
         /\ Disjoint(WindowsOf(c)))
            => get_warnings(c.run.warnings) = <<>>

\* the lines and the warnings a call in a thread logs itself
OwnLines(t) ==
    LET Logs(s) == s.op = "log"
        steps == SelectSeq(threads[t].program, Logs)
    IN [i \in 1..Len(steps) |-> steps[i].what]

OwnWarnings(t) ==
    LET Warns(s) == s.op = "warn"
        steps == SelectSeq(threads[t].program, Warns)
    IN [i \in 1..Len(steps) |-> steps[i].what]

\* the call of thread t has returned and its caller has read get_warnings()
Finished(t) == threads[t].result # None /\ threads[t].got_warnings # None

\* what thread t got is not what its own call logged
Garbled(t) ==
    \/ The(threads[t].result).explanation # OwnLines(t)
    \/ The(threads[t].got_warnings) # OwnWarnings(t)

\* C33: two generate_schedule calls on separate Scheduler instances, however
\* their steps interleave, each return a Schedule whose explanation is what
\* that call logged, and get_warnings() gives each caller the warnings of its
\* own call (on one Scheduler there are interleavings that garble them)
C33_SeparateSchedulersSafe ==
    threads["a"].on # threads["b"].on =>
        \A t \in ThreadIds : Finished(t) => ~Garbled(t)

\* two calls on one Scheduler have returned; the explanation of one holds a
\* line the other call logged, and get_warnings() gave the caller of the
\* other no warning although its call appended one
C33_Witness ==
    /\ threads["a"].on = threads["b"].on
    /\ Finished("a") /\ Finished("b")
    /\ \E t, u \in ThreadIds :
          /\ t # u
          /\ Len(The(threads[t].result).explanation) > Len(OwnLines(t))
          /\ OwnWarnings(u) # <<>>
          /\ The(threads[u].got_warnings) = <<>>

====
